---- MODULE Spec2Model ----
(***************************************************************************)
(* Model of the mighty-grpc gateway: the gRPC proxy (server_proxy/mod.rs), *)
(* the REST client behind it (clients/rest.rs) and the JSON decoders       *)
(* (clients/json_response_converters.rs).                                  *)
(*                                                                         *)
(* Text.  A Rust String is a sequence of symbols.  In the text that data   *)
(* carries (request fields, JSON keys and strings) the symbols "," " "     *)
(* "\"" "\\" "\n" "\t" "\r" "\f" "&" "=" "#" "'" "<" ">" stand for that    *)
(* one character, and so do the characters outside ASCII, of which the     *)
(* texts have the letter e with an acute accent, the no-break space        *)
(* (NBSP), the soft hyphen (SHY) and the byte order mark (BOM).  Any other *)
(* symbol is a run of printable ASCII characters containing none of them   *)
(* and no backquote.  A string literal of the source, or a library's       *)
(* message, is one symbol.  In the text of a number every character is a   *)
(* symbol.                                                                 *)
(*                                                                         *)
(* Numbers.  A JSON number is kept as its decimal literal: a sign, the     *)
(* digits of the integer part, the digits of the fraction (empty when the  *)
(* literal has no point) and the exponent (<<>> when the literal has       *)
(* none), so that 64-bit values can be told apart although the model       *)
(* checker's own integers have 32 bits, and because the f64 of a float     *)
(* depends on how the literal is written.  An i32 result is an Int.  An    *)
(* f64 or f32 is its sign, significand and binary exponent.  The parser is *)
(* serde_json's with its default features (no float_roundtrip): it takes   *)
(* the digits in as a u64 until that would overflow, converts the u64 to   *)
(* an f64 and multiplies or divides by a power of ten, so the f64 of a     *)
(* float literal need not be the nearest one.                              *)
(***************************************************************************)
EXTENDS Integers, Sequences, FiniteSets, TLC

VARIABLES base_url, calls

vars == <<base_url, calls>>

(***************************************************************************)
(* Option<T>                                                               *)
(***************************************************************************)
None == [some |-> FALSE]

Some(x) == [some |-> TRUE, val |-> x]

and_then(opt, F(_)) == IF opt.some THEN F(opt.val) ELSE None

map(opt, F(_)) == IF opt.some THEN Some(F(opt.val)) ELSE None

unwrap_or(opt, d) == IF opt.some THEN opt.val ELSE d

(***************************************************************************)
(* serde_json::Value                                                       *)
(***************************************************************************)
JNull == [t |-> "null"]

JBool(b) == [t |-> "bool", b |-> b]

\* a number without an exponent
JNum(neg, int, frac) ==
    [t |-> "num", neg |-> neg, int |-> int, frac |-> frac, exp |-> <<>>]

\* a number with the exponent exp
JExp(neg, int, frac, exp) ==
    [t |-> "num", neg |-> neg, int |-> int, frac |-> frac, exp |-> <<exp>>]

JStr(s) == [t |-> "str", s |-> s]

JArr(a) == [t |-> "arr", a |-> a]

\* an object is its entries <<key, value>> in key order, keys unique
JObj(o) == [t |-> "obj", o |-> o]

JInt(digits) == JNum(FALSE, digits, <<>>)

JNeg(digits) == JNum(TRUE, digits, <<>>)

\* U+00A0, U+00AD and U+FEFF
NBSP == " "

SHY == "­"

BOM == "﻿"

\* a string literal of the source
S(lit) == <<lit>>

EMPTY_VEC == <<>>

EMPTY_STR == <<>>

\* Value::get(&str): the entry of an object, None for every other value
get(json, key) ==
    IF json.t = "obj" /\ \E i \in 1..Len(json.o) : json.o[i][1] = key
    THEN Some(json.o[CHOOSE i \in 1..Len(json.o) : json.o[i][1] = key][2])
    ELSE None

\* Vec::get(index), index counted from 0
vec_get(arr, index) == IF index < Len(arr) THEN Some(arr[index + 1]) ELSE None

as_array(v) == IF v.t = "arr" THEN Some(v.a) ELSE None

as_str(v) == IF v.t = "str" THEN Some(v.s) ELSE None

as_object(v) == IF v.t = "obj" THEN Some(v.o) ELSE None

is_array(v) == v.t = "arr"

is_string(v) == v.t = "str"

(***************************************************************************)
(* serde_json::Number: PosInt(u64) | NegInt(i64) | Float(f64)              *)
(***************************************************************************)
I32_MAX == <<2,1,4,7,4,8,3,6,4,7>>

I32_MIN_MAG == <<2,1,4,7,4,8,3,6,4,8>>

I64_MAX == <<9,2,2,3,3,7,2,0,3,6,8,5,4,7,7,5,8,0,7>>

I64_MIN_MAG == <<9,2,2,3,3,7,2,0,3,6,8,5,4,7,7,5,8,0,8>>

U64_MAX == <<1,8,4,4,6,7,4,4,0,7,3,7,0,9,5,5,1,6,1,5>>

RECURSIVE LexLE(_, _)
LexLE(a, b) ==
    IF a = <<>> THEN TRUE
    ELSE IF a[1] # b[1] THEN a[1] < b[1]
    ELSE LexLE(Tail(a), Tail(b))

\* a <= b for digit strings without leading zeros
DigitsLE(a, b) == Len(a) < Len(b) \/ (Len(a) = Len(b) /\ LexLE(a, b))

\* how the parser classifies a literal: an integer literal that fits u64
\* (or, negative, i64) is an integer, everything else is a float
NumKind(n) ==
    IF n.frac # <<>> \/ n.exp # <<>> THEN "Float"
    ELSE IF ~n.neg THEN (IF DigitsLE(n.int, U64_MAX) THEN "PosInt" ELSE "Float")
    ELSE IF n.int = <<0>> THEN "Float"
    ELSE IF DigitsLE(n.int, I64_MIN_MAG) THEN "NegInt" ELSE "Float"

ZERO == [neg |-> FALSE, int |-> <<0>>]

\* Value::as_i64: Some for an integer within the i64 range
as_i64(v) ==
    IF v.t = "num"
       /\ \/ NumKind(v) = "NegInt"
          \/ NumKind(v) = "PosInt" /\ DigitsLE(v.int, I64_MAX)
    THEN Some([neg |-> v.neg, int |-> v.int])
    ELSE None

\* Value::as_u64: Some for a non-negative integer
as_u64(v) ==
    IF v.t = "num" /\ NumKind(v) = "PosInt"
    THEN Some([neg |-> FALSE, int |-> v.int])
    ELSE None

(***************************************************************************)
(* Inputs: the JSON documents the backend may send                         *)
(***************************************************************************)
\* total size (rows + cells) of a two-dimensional `outputs` / `logits` array
MaxCells == 4

\* length of an `entities` array
MaxEntities == 2

F(int, frac) == JNum(FALSE, int, frac)

\* integers around the edges of i32, i64 and u64
TwoPow31 == JInt(I32_MIN_MAG)

TwoPow32Plus7 == JInt(<<4,2,9,4,9,6,7,3,0,3>>)

TwoPow63 == JInt(I64_MIN_MAG)

BelowI32 == JNeg(<<2,1,4,7,4,8,3,6,4,9>>)

TwoPow63Plus7 == JInt(<<9,2,2,3,3,7,2,0,3,6,8,5,4,7,7,5,8,1,5>>)

TwoPow64Plus7 == JInt(<<1,8,4,4,6,7,4,4,0,7,3,7,0,9,5,5,1,6,2,3>>)

BelowI64 == JNeg(<<9,2,2,3,3,7,2,0,3,6,8,5,4,7,7,5,8,1,5>>)

Integers32 == {JInt(<<0>>), JInt(<<7>>), JInt(I32_MAX), JNeg(<<3>>)}

WideIntegers == {TwoPow31, TwoPow32Plus7, TwoPow63, BelowI32,
                 TwoPow63Plus7, TwoPow64Plus7, BelowI64}

\* values that are not an integer
NonIntegers == {JNull, JBool(TRUE), F(<<1>>, <<5>>), JStr(S("9")), JArr(<<>>), JObj(<<>>)}

\* values that are not a string
Strings == {JStr(<<"Sample", " ", "text">>), JStr(<<"a", ",", " ", "b">>), JStr(<<"say", " ", "\"", "hi", "\"">>)}

NonStrings == {JNull, JInt(<<7>>), JArr(<<JStr(S("x"))>>)}

\* the entries of an inner array: two numbers and a non-number
InnerElems == {JInt(<<1>>), F(<<0>>, <<5>>), JStr(S("x"))}

\* the rows of total size k: an element that is no array, or an array of
\* k - 1 entries
RowsOfSize(k) ==
    {JArr(r) : r \in [1..(k - 1) -> InnerElems]}
    \cup (IF k = 1 THEN {JInt(<<7>>)} ELSE {})

RECURSIVE Grids(_)
Grids(n) ==
    {<<>>} \cup UNION {{<<r>> \o g : r \in RowsOfSize(k), g \in Grids(n - k)} : k \in 1..n}

Arrays2D == {JArr(g) : g \in Grids(MaxCells)}

ShapeValues ==
    {JArr(<<>>), JArr(<<JInt(<<1>>)>>), JArr(<<JInt(<<1>>), JInt(<<3>>)>>),
     JArr(<<JInt(<<1>>), JInt(<<3>>), JInt(<<9>>)>>),
     JArr(<<JStr(S("x")), JInt(<<3>>)>>), JArr(<<JInt(<<1>>), JNull>>),
     JArr(<<F(<<1>>, <<5>>), JInt(<<2>>)>>), JArr(<<JNeg(<<1>>), JInt(<<2>>)>>),
     JArr(<<TwoPow32Plus7, JInt(<<1>>)>>), JArr(<<JInt(<<1>>), TwoPow63>>),
     JArr(<<TwoPow31, BelowI32>>), JArr(<<TwoPow63Plus7, BelowI64>>),
     JNull, JInt(<<3>>), JStr(<<"1", ",", "3">>),
     JObj(<< <<S("dim1"), JInt(<<1>>)>> >>)}

OffsetValues ==
    {JArr(<<>>), JArr(<<JInt(<<7>>)>>),
     JArr(<<JInt(<<9>>), JInt(<<1, 7>>), JInt(<<4>>)>>),
     JArr(<<JStr(S("x")), JInt(<<5>>)>>), JArr(<<JInt(<<5>>), F(<<1>>, <<5>>)>>),
     JArr(<<TwoPow32Plus7, JNeg(<<3>>)>>), JArr(<<TwoPow63, TwoPow31>>),
     JArr(<<TwoPow63Plus7, TwoPow64Plus7>>),
     JInt(<<7>>)}

Entity1 ==
    JObj(<< <<S("id"), JStr(S("entity1"))>>, <<S("label"), JStr(S("Person"))>>,
            <<S("offsets"), JArr(<<JInt(<<0>>), JInt(<<8>>)>>)>>,
            <<S("score"), F(<<0>>, <<9, 5>>)>>,
            <<S("text"), JStr(<<"John", " ", "Doe">>)>> >>)

Entity2 ==
    JObj(<< <<S("id"), JStr(S("entity2"))>>, <<S("label"), JStr(S("Location"))>>,
            <<S("offsets"), JArr(<<JInt(<<9>>), JInt(<<1, 7>>)>>)>>,
            <<S("score"), F(<<0>>, <<8, 9>>)>>,
            <<S("text"), JStr(<<"New", " ", "York">>)>> >>)

EntityValues ==
    {JObj(<< <<S("offsets"), v>> >>) : v \in OffsetValues}
    \cup {Entity1, JObj(<<>>), JNull,
          JObj(<< <<S("id"), JInt(<<1>>)>>, <<S("score"), JStr(S("high"))>> >>)}

EntityArrays == UNION {{JArr(a) : a \in [1..n -> EntityValues]} : n \in 0..MaxEntities}

\* the fields the decoders read, in key order, each with the values the
\* backend may give it
Fields ==
    << <<S("answer"), Strings \cup NonStrings>>,
       <<S("context"), Strings>>,
       <<S("end_idx"), Integers32 \cup WideIntegers \cup NonIntegers>>,
       <<S("entities"), EntityArrays \cup NonIntegers>>,
       <<S("logits"), Arrays2D \cup NonIntegers>>,
       <<S("outputs"), Arrays2D \cup NonIntegers>>,
       <<S("question"), Strings>>,
       <<S("shape"), ShapeValues>>,
       <<S("start_idx"), Integers32 \cup WideIntegers \cup NonIntegers>>,
       <<S("text"), Strings \cup NonStrings>>,
       <<S("took"), Integers32 \cup WideIntegers \cup NonIntegers>> >>

\* a few values of each field, for documents with two fields
FewValues ==
    << {JStr(S("yes")), JInt(<<7>>)},
       {JStr(S("other"))},
       {JInt(<<5, 0>>), JNeg(<<3>>)},
       {JArr(<<Entity1, Entity2>>)},
       {JArr(<<JArr(<<JInt(<<1>>), F(<<0>>, <<5>>)>>), JArr(<<JStr(S("x"))>>)>>)},
       {JArr(<<JArr(<<JInt(<<1>>), JNull>>), JInt(<<7>>)>>)},
       {JStr(S("other"))},
       {JArr(<<JInt(<<1>>), JInt(<<3>>)>>), JArr(<<JInt(<<2>>)>>)},
       {JInt(<<1, 0>>), TwoPow32Plus7},
       {JStr(<<"Sample", " ", "text">>), JNull},
       {JInt(<<9>>), F(<<1>>, <<5>>)} >>

OneField == UNION {{JObj(<< <<Fields[i][1], v>> >>) : v \in Fields[i][2]} : i \in 1..Len(Fields)}

TwoFields ==
    UNION {UNION {{JObj(<< <<Fields[i][1], v>>, <<Fields[j][1], w>> >>) :
                       v \in FewValues[i], w \in FewValues[j]} :
                  j \in (i + 1)..Len(Fields)} :
           i \in 1..Len(Fields)}

\* the documents of the unit tests of json_response_converters.rs
TestOutputs ==
    JArr(<<JArr(<<F(<<0>>, <<1>>), F(<<0>>, <<2>>), F(<<0>>, <<3>>)>>),
           JArr(<<F(<<0>>, <<4>>), F(<<0>>, <<5>>), F(<<0>>, <<6>>)>>)>>)

TestEmbeddingsJson ==
    JObj(<< <<S("outputs"), TestOutputs>>,
            <<S("shape"), JArr(<<JInt(<<1>>), JInt(<<3>>)>>)>>,
            <<S("text"), JStr(<<"Sample", " ", "text">>)>>, <<S("took"), JInt(<<9>>)>> >>)

TestQuestionAnswerJson ==
    JObj(<< <<S("answer"), JStr(<<"This", " ", "is", " ", "the", " ", "answer.">>)>>,
            <<S("end_idx"), JInt(<<5, 0>>)>>, <<S("start_idx"), JInt(<<1, 0>>)>>,
            <<S("took"), JInt(<<9>>)>> >>)

TestSequenceClassificationJson ==
    JObj(<< <<S("logits"), TestOutputs>>,
            <<S("shape"), JArr(<<JInt(<<1>>), JInt(<<3>>)>>)>>,
            <<S("text"), JStr(<<"Sample", " ", "text">>)>>, <<S("took"), JInt(<<5>>)>> >>)

TestTokenClassificationJson ==
    JObj(<< <<S("entities"), JArr(<<Entity1, Entity2>>)>>,
            <<S("shape"), JArr(<<JInt(<<1>>), JInt(<<2>>)>>)>>,
            <<S("text"), JStr(<<"John", " ", "Doe", " ", "went", " ", "to", " ", "New", " ", "York.">>)>>,
            <<S("took"), JInt(<<5>>)>> >>)

\* the document of test_json_to_metadata_response, its keys in the order
\* serde_json's map keeps them
TestMetadataJson ==
    JObj(<< <<S("input_names"), JArr(<<JStr(S("input_ids")), JStr(S("attention_mask"))>>)>>,
            <<S("model_name"),
              JStr(S("/home/mighty/.cache/mighty/models/elastic/distilbert-base-uncased-finetuned-conll03-english/model-optimized.onnx"))>>,
            <<S("onnx_graph_name"), JStr(S("torch-jit-export"))>>,
            <<S("onnx_producer_name"), JStr(S("onnxruntime.transformers"))>>,
            <<S("output_names"), JArr(<<JStr(S("logits"))>>)>>,
            <<S("tokenizer_name"),
              JStr(S("/home/mighty/.cache/mighty/models/elastic/distilbert-base-uncased-finetuned-conll03-english/tokenizer.json"))>> >>)

\* metadata values of every JSON type
MetadataValues ==
    {JStr(S("torch-jit-export")), JStr(<<"a", ",", " ", "b">>),
     JStr(<<"say", " ", "\"", "hi", "\"">>), JStr(<<>>),
     JArr(<<>>), JArr(<<JStr(S("input_ids")), JStr(S("attention_mask"))>>),
     JArr(<<JInt(<<1>>), F(<<2>>, <<5>>), JBool(FALSE), JNull>>),
     JArr(<<TwoPow64Plus7, F(<<0>>, <<0, 0, 0, 0, 0, 1>>), JStr(<<"a", "\t", "b">>)>>),
     JArr(<<JStr(<<"a", ",", " ", "b">>), JStr(S("c"))>>),
     JArr(<<JArr(<<JInt(<<1>>), JInt(<<2>>)>>), JObj(<< <<S("k"), JStr(S("v"))>> >>)>>),
     JInt(<<4, 2>>), JNeg(<<3>>), F(<<1>>, <<5>>), JBool(TRUE), JNull,
     TwoPow64Plus7, F(<<0>>, <<0, 0, 0, 0, 0, 1>>), JStr(<<"a", "\t", "b">>),
     JExp(FALSE, <<1>>, <<>>, -23),
     JArr(<<JExp(FALSE, <<1>>, <<>>, -45), JExp(FALSE, <<7>>, <<>>, 23),
            F(<<9,0,0,7,1,9,9,2,5,4,7,4,0,9,9,3>>, <<0>>),
            F(<<1,1,2,5,8,9,9,9,0,6,8,4,2,6,2,4>>, <<2,5>>)>>),
     JObj(<< <<S("k"), JStr(<<"v", ",", " ", "w">>)>>, <<S("n"), JInt(<<1>>)>> >>)}

MetadataDocs ==
    {JObj(<< <<S("key"), v>> >>) : v \in MetadataValues}
    \cup {JObj(<< <<S("a"), v>>, <<S("b"), w>> >>) :
             v \in MetadataValues, w \in {JStr(S("x")), JArr(<<JInt(<<1>>), JInt(<<2>>)>>)}}

\* documents whose root is not an object, and the empty object
Roots ==
    {JNull, JBool(FALSE), JInt(<<4, 2>>), F(<<1>>, <<5>>), JStr(S("OK")),
     JArr(<<>>), JArr(<<F(<<1>>, <<0>>), F(<<2>>, <<0>>), F(<<3>>, <<0>>)>>),
     JObj(<<>>)}

\* the body of a backend that sends the text of the request back
EchoedTextJson ==
    JObj(<< <<S("outputs"), JArr(<<JArr(<<F(<<0>>, <<1>>)>>)>>)>>,
            <<S("text"), JStr(<<"test", " ", "text">>)>> >>)

\* a body whose integers are wider than 63 bits
WideIntegersJson ==
    JObj(<< <<S("end_idx"), TwoPow64Plus7>>, <<S("start_idx"), TwoPow63Plus7>>,
            <<S("took"), TwoPow63Plus7>> >>)

\* a body whose numbers show how a literal becomes an f32: negative zero,
\* a literal just above the middle of two f32 that an f64 cannot tell from
\* the middle, two literals of one f32, and two literals (93.49375534057617
\* and 7.006492321624086e-46) whose f64 is not the nearest one and falls on
\* the other side of the middle of two f32
RoundedTwiceRow ==
    JArr(<<JNum(TRUE, <<0>>, <<0>>),
           F(<<1>>, <<0,0,0,0,0,0,0,5,9,6,0,4,6,4,4,7,7,5,3,9,0,6,2,5,0,0,0,0,0,0,0,1>>),
           F(<<0>>, <<1>>),
           F(<<0>>, <<1,0,0,0,0,0,0,0,1,4,9,0,1,1,6,1,2>>),
           F(<<9,3>>, <<4,9,3,7,5,5,3,4,0,5,7,6,1,7>>),
           JExp(FALSE, <<7>>, <<0,0,6,4,9,2,3,2,1,6,2,4,0,8,6>>, -46)>>)

RoundedTwiceJson ==
    JObj(<< <<S("logits"), JArr(<<RoundedTwiceRow>>)>>,
            <<S("outputs"), JArr(<<RoundedTwiceRow>>)>> >>)

Documents ==
    Roots \cup OneField \cup TwoFields \cup MetadataDocs
    \cup {TestEmbeddingsJson, TestQuestionAnswerJson, TestSequenceClassificationJson,
          TestTokenClassificationJson, TestMetadataJson, EchoedTextJson,
          WideIntegersJson, RoundedTwiceJson}

\* the numbers of a value
RECURSIVE NumbersIn(_)
NumbersIn(v) ==
    IF v.t = "num" THEN {v}
    ELSE IF v.t = "arr" THEN UNION {NumbersIn(v.a[k]) : k \in 1..Len(v.a)}
    ELSE IF v.t = "obj" THEN UNION {NumbersIn(v.o[k][2]) : k \in 1..Len(v.o)}
    ELSE {}

\* the numbers of the documents: what a conversion gives for them is worked
\* out once and looked up afterwards
Literals == UNION {NumbersIn(d) : d \in Documents}

(***************************************************************************)
(* f64 and f32.  A decimal in fixed point is [i |-> digits of the integer  *)
(* part, f |-> digits of the fraction].  An f64 is [neg, m, e]: the value  *)
(* m * 2^e with m the 53-bit significand as decimal digits (<<0>> for      *)
(* zero, which keeps its sign).  An f32 is [neg, m, e] with m < 2^24 an    *)
(* Int; infinity is m = 0, e = 128.                                        *)
(***************************************************************************)
\* LET x == v IN e, with v computed once: Let([x \in {v} |-> e])
Let(f) == CHOOSE r \in {g[CHOOSE x \in DOMAIN g : TRUE] : g \in {f}} : TRUE

TwoPow52 == <<4,5,0,3,5,9,9,6,2,7,3,7,0,4,9,6>>

TwoPow53 == <<9,0,0,7,1,9,9,2,5,4,7,4,0,9,9,2>>

TwoPow23 == 8388608

TwoPow24 == 16777216

\* the number a short digit string stands for
RECURSIVE DigitsToInt(_)
DigitsToInt(d) ==
    IF d = <<>> THEN 0
    ELSE DigitsToInt(SubSeq(d, 1, Len(d) - 1)) * 10 + d[Len(d)]

Zeros(k) == [j \in 1..k |-> 0]

Zeros9 == <<0, 0, 0, 0, 0, 0, 0, 0, 0>>

\* digits without trailing zeros
StripZeros(frac) ==
    Let([d \in {frac} |->
        IF \A k \in 1..Len(d) : d[k] = 0 THEN <<>>
        ELSE SubSeq(d, 1, CHOOSE k \in 1..Len(d) :
                              d[k] # 0 /\ \A j \in (k + 1)..Len(d) : d[j] = 0)])

\* the number of zeros the digits start with
LeadZeros(digits) ==
    Let([d \in {digits} |->
        IF \A k \in 1..Len(d) : d[k] = 0 THEN Len(d)
        ELSE (CHOOSE k \in 1..Len(d) : d[k] # 0 /\ \A j \in 1..(k - 1) : d[j] = 0) - 1])

\* digits without leading zeros, <<0>> for zero
StripLead(digits) ==
    Let([d \in {digits} |->
        IF LeadZeros(d) = Len(d) THEN <<0>> ELSE SubSeq(d, LeadZeros(d) + 1, Len(d))])

\* the digits d of a number with n digits before the point, as a decimal
Decimal(d, n) ==
    [i |-> StripLead(SubSeq(d, 1, n)), f |-> StripZeros(SubSeq(d, n + 1, Len(d)))]

\* twice the decimal x: each digit doubles and takes the carry of the next
Double(x) ==
    Let([d \in {<<0>> \o x.i \o x.f} |->
        Decimal([k \in 1..Len(d) |->
                    (2 * d[k] + (IF k < Len(d) /\ d[k + 1] >= 5 THEN 1 ELSE 0)) % 10],
                Len(x.i) + 1)])

\* half the decimal x: each digit halves and takes the rest of the one before
Halve(x) ==
    Let([d \in {x.i \o x.f \o <<0>>} |->
        Decimal([k \in 1..Len(d) |->
                    (d[k] + (IF k > 1 THEN 10 * (d[k - 1] % 2) ELSE 0)) \div 2],
                Len(x.i))])

\* x * 2^s, s of either sign
RECURSIVE Scaled(_, _)
Scaled(x, s) ==
    IF s = 0 THEN x
    ELSE IF s = 1 THEN Double(x)
    ELSE IF s = -1 THEN Halve(x)
    ELSE Let([y \in {Scaled(x, s \div 2)} |->
        Scaled(y, s - s \div 2)])

\* digits + 1
Incr(digits) ==
    Let([d \in {digits} |->
        IF \A k \in 1..Len(d) : d[k] = 9 THEN <<1>> \o [k \in 1..Len(d) |-> 0]
        ELSE [k \in 1..Len(d) |->
                 IF \A j \in (k + 1)..Len(d) : d[j] = 9 THEN (d[k] + 1) % 10 ELSE d[k]]])

\* round to nearest, ties to even: whether the integer part goes up, given
\* the fraction (without trailing zeros) that is cut off
RoundsUp(f, odd) ==
    IF f = <<>> THEN FALSE
    ELSE IF f[1] # 5 THEN f[1] > 5
    ELSE Len(f) > 1 \/ odd

IsOdd(d) == d[Len(d)] % 2 = 1

Min(a, b) == IF a < b THEN a ELSE b

\* floor(log2(v)) for 1 <= v < 2^30
Log2Floor(v) == CHOOSE k \in 0..29 : 2^k <= v /\ v < 2^(k + 1)

\* floor(log2(x)) or one less, for a decimal x > 0, from its first nine
\* significant digits v and their place: x = v.. * 10^p, log2(10) = 3.321928..
Log2Est(x) ==
    Let([d \in {x.i \o x.f \o Zeros9} |->
    Let([z \in {LeadZeros(d)} |->
        Log2Floor(DigitsToInt(SubSeq(d, z + 1, z + 9)))
        + ((Len(x.i) - z - 9) * 3321928) \div 1000000])])

\* the doublings (halvings, when negative) that bring x * 2^e towards the
\* range 2^52 .. 2^53 of a significand; a subnormal stays below 2^52 at
\* e = -1074
Far(x, e) ==
    IF e < -1074 THEN e + 1074
    ELSE IF DigitsLE(TwoPow53, x.i)
    THEN Let([s \in {52 - Log2Est(x)} |->
        IF s >= 0 THEN -1 ELSE s])
    ELSE IF DigitsLE(TwoPow52, x.i) THEN 0
    ELSE Let([s \in {52 - Log2Est(x)} |->
        Min(IF s <= 0 THEN 1 ELSE s, e + 1074)])

\* x * 2^(-e) brought between 2^52 and 2^53, with the e that did it
RECURSIVE Normalized(_, _)
Normalized(x0, e) ==
    Let([x \in {x0} |->
    Let([far \in {Far(x, e)} |->
        IF far = 0 THEN [x |-> x, e |-> e]
        ELSE Let([y \in {Scaled(x, far)} |->
            Normalized(y, e - far)])])])

\* the f64 a normalized decimal rounds to
Rounded(neg, n) ==
    Let([m \in {IF RoundsUp(n.x.f, IsOdd(n.x.i)) THEN Incr(n.x.i) ELSE n.x.i} |->
        IF m = TwoPow53 THEN [neg |-> neg, m |-> TwoPow52, e |-> n.e + 1]
        ELSE IF m = <<0>> THEN [neg |-> neg, m |-> <<0>>, e |-> 0]
        ELSE [neg |-> neg, m |-> m, e |-> n.e]])

\* the f64 nearest to a decimal
NearestF64(neg, int, frac) ==
    Let([x \in {[i |-> StripLead(int), f |-> StripZeros(frac)]} |->
        IF x.i = <<0>> /\ x.f = <<>> THEN [neg |-> neg, m |-> <<0>>, e |-> 0]
        ELSE Let([n \in {Normalized(x, 0)} |->
            Rounded(neg, n)])])

\* the digit strings a and b, of the length of the longer and one more
Aligned(a0, b0) ==
    Let([a \in {a0} |->
    Let([b \in {b0} |->
    Let([n \in {1 + (IF Len(a) > Len(b) THEN Len(a) ELSE Len(b))} |->
        [a |-> Zeros(n - Len(a)) \o a, b |-> Zeros(n - Len(b)) \o b]])])])

\* a + b for digit strings: a place takes a carry when a place to its right
\* reaches ten and all places between are nine
Add(a0, b0) ==
    Let([p \in {Aligned(a0, b0)} |->
    Let([s \in {[k \in 1..Len(p.a) |-> p.a[k] + p.b[k]] \o <<>>} |->
        StripLead([k \in 1..Len(s) |->
            (s[k] + (IF \E j \in (k + 1)..Len(s) :
                          s[j] >= 10 /\ \A i \in (k + 1)..(j - 1) : s[i] = 9
                     THEN 1 ELSE 0)) % 10])])])

\* a - b for digit strings, a >= b: a place lends when a place to its right
\* is short and all places between are level
Sub(a0, b0) ==
    Let([p \in {Aligned(a0, b0)} |->
        StripLead([k \in 1..Len(p.a) |->
            (10 + p.a[k] - p.b[k]
             - (IF \E j \in (k + 1)..Len(p.a) :
                       p.a[j] < p.b[j] /\ \A i \in (k + 1)..(j - 1) : p.a[i] = p.b[i]
                THEN 1 ELSE 0)) % 10])])

\* the four groups of four digits of a digit string of up to 16 digits, as
\* numbers
Groups(d0) ==
    Let([d \in {Zeros(16 - Len(d0)) \o d0} |->
        [k \in 1..4 |-> d[4 * k - 3] * 1000 + d[4 * k - 2] * 100 + d[4 * k - 1] * 10 + d[4 * k]]
        \o <<>>])

\* the digits of groups g, each below 10^4
Ungrouped(g) ==
    [k \in 1..(4 * Len(g)) |-> (g[(k + 3) \div 4] \div 10^(3 - ((k - 1) % 4))) % 10] \o <<>>

\* a * b for digit strings of up to 16 digits: the products of the groups
\* of four digits, summed by place
Mul(a0, b0) ==
    Let([a \in {Groups(a0)} |->
    Let([b \in {Groups(b0)} |->
    Let([p \in {[k \in 1..7 |->
             (IF k <= 4 THEN a[1] * b[k] ELSE 0)
             + (IF k >= 2 /\ k <= 5 THEN a[2] * b[k - 1] ELSE 0)
             + (IF k >= 3 /\ k <= 6 THEN a[3] * b[k - 2] ELSE 0)
             + (IF k >= 4 THEN a[4] * b[k - 3] ELSE 0)] \o <<>>} |->
        Add(Add(Ungrouped([k \in 1..7 |-> p[k] % 10000]),
                Ungrouped([k \in 1..7 |-> (p[k] \div 10000) % 10000]) \o Zeros(4)),
            Ungrouped([k \in 1..7 |-> p[k] \div 100000000]) \o Zeros(8))])])])

\* one step of long division by the number whose multiples 0..9 are mult:
\* the next digit d of the dividend comes down
DivStep(st, d, mult) ==
    Let([r \in {StripLead(st.r \o <<d>>)} |->
    Let([k \in {CHOOSE k \in 0..9 :
             DigitsLE(mult[k + 1], r) /\ (k = 9 \/ ~DigitsLE(mult[k + 2], r))} |->
        [q |-> st.q \o <<k>>, r |-> Sub(r, mult[k + 1])]])])

\* the steps of the long division for the digits lo..hi of the dividend n
RECURSIVE DivSteps(_, _, _, _, _)
DivSteps(st, n, mult, lo, hi) ==
    IF lo = hi THEN DivStep(st, n[lo], mult)
    ELSE Let([half \in {DivSteps(st, n, mult, lo, (lo + hi) \div 2)} |->
        DivSteps(half, n, mult, (lo + hi) \div 2 + 1, hi)])

\* quotient and remainder of the digit strings n and d, d > 0 of up to 16
\* digits
DivMod(n0, d0) ==
    Let([n \in {n0} |->
    Let([d \in {d0} |->
    Let([mult \in {[k \in 1..10 |-> Mul(<<k - 1>>, d)] \o <<>>} |->
    Let([st \in {DivSteps([q |-> <<>>, r |-> <<0>>], n, mult, 1, Len(n))} |->
        [q |-> StripLead(st.q), r |-> st.r]])])])])

\* f64 * f64: the exact product, rounded once
MulF64(a0, b0) ==
    Let([a \in {a0} |->
    Let([b \in {b0} |->
        IF a.m = <<0>> THEN a
        ELSE Let([p \in {Mul(a.m, b.m)} |->
        Let([n \in {Normalized([i |-> p, f |-> <<>>], a.e + b.e)} |->
            Rounded(a.neg, n)])])])])

\* f64 / f64: the quotient to 56 more bits, with a mark in the fraction when
\* the division left a remainder, rounded once
DivF64(a0, b0) ==
    Let([a \in {a0} |->
    Let([b \in {b0} |->
        IF a.m = <<0>> THEN a
        ELSE Let([qr \in {DivMod(Scaled([i |-> a.m, f |-> <<>>], 56).i, b.m)} |->
        Let([n \in {Normalized([i |-> qr.q, f |-> IF qr.r = <<0>> THEN <<>> ELSE <<1>>],
                             a.e - b.e - 56)} |->
            Rounded(a.neg, n)])])])])

\* f64::is_infinite: beyond the largest f64, (2^53 - 1) * 2^971
is_infinite(x) == x.e > 971

\* POW10[k], the f64 of 10^k, 0 <= k <= 308
POW10(k) == NearestF64(FALSE, <<1>> \o Zeros(k), <<>>)

\* the loop of f64_from_parts: f times (or by) the power of ten, a power
\* beyond 10^-308 in steps of 10^308; None is the error NumberOutOfRange
RECURSIVE ScaledByPow10(_, _)
ScaledByPow10(f0, exponent) ==
    Let([f \in {f0} |->
        IF exponent >= 0 /\ exponent <= 308
        THEN Let([g \in {MulF64(f, POW10(exponent))} |->
            IF is_infinite(g) THEN None ELSE Some(g)])
        ELSE IF exponent < 0 /\ exponent >= -308 THEN Some(DivF64(f, POW10(-exponent)))
        ELSE IF f.m = <<0>> THEN Some(f)
        ELSE IF exponent >= 0 THEN None
        ELSE ScaledByPow10(DivF64(f, POW10(308)), exponent + 308)])

\* Deserializer::f64_from_parts: the significand as an f64, then times the
\* power of ten, each step rounded
f64_from_parts(positive, significand, exponent) ==
    Let([r \in {ScaledByPow10(NearestF64(FALSE, significand, <<>>), exponent)} |->
        IF r.some THEN Some([r.val EXCEPT !.neg = ~positive]) ELSE None])

\* the digits of ds the significand s takes in: as many as keep it within
\* u64 (overflow!(significand * 10 + digit, u64::MAX) ends it)
Taken(s0, ds0) ==
    Let([s \in {s0} |->
    Let([ds \in {ds0} |->
        CHOOSE k \in 0..Len(ds) :
            /\ DigitsLE(StripLead(s \o SubSeq(ds, 1, k)), U64_MAX)
            /\ k = Len(ds) \/ ~DigitsLE(StripLead(s \o SubSeq(ds, 1, k + 1)), U64_MAX)])])

\* parse_integer, parse_long_integer, parse_decimal, parse_decimal_overflow
\* and parse_exponent: the significand takes the digits of the literal in
\* until it would pass u64::MAX; an integer digit left out counts one up in
\* the exponent, a fraction digit taken in one down, a fraction digit left
\* out nothing
Parts(n0) ==
    Let([n \in {n0} |->
    Let([k1 \in {Taken(<<>>, n.int)} |->
    Let([k2 \in {Taken(SubSeq(n.int, 1, k1), n.frac)} |->
        [significand |-> StripLead(SubSeq(n.int, 1, k1) \o SubSeq(n.frac, 1, k2)),
         exponent |-> Len(n.int) - k1 - k2 + (IF n.exp = <<>> THEN 0 ELSE n.exp[1])]])])])

\* the f64 the parser gives for a float literal; None for a literal it
\* rejects as out of range
ParseF64(n) ==
    Let([p \in {Parts(n)} |->
        f64_from_parts(~n.neg, p.significand, p.exponent)])

\* the f64 of a number that parsed: of an integer (`as f64`) the nearest
F64(n) ==
    IF NumKind(n) = "Float" THEN ParseF64(n).val ELSE NearestF64(n.neg, n.int, <<>>)

\* the f64 of the numbers of the documents
F64Of == [v \in Literals |-> F64(v)]

\* the f64 of a number
ToF64(v) == IF v \in Literals THEN F64Of[v] ELSE F64(v)

\* Value::as_f64: Some for every number; an integer is converted (`as f64`),
\* a float is the f64 the parser read from the literal
as_f64(v) ==
    IF v.t = "num" THEN Some(ToF64(v)) ELSE None

\* the digits of a natural number
RECURSIVE IntToDigits(_)
IntToDigits(k) ==
    IF k < 10 THEN <<k>> ELSE Append(IntToDigits(k \div 10), k % 10)

ZERO_F64 == [neg |-> FALSE, m |-> <<0>>, e |-> 0]

\* the f32 of significand m1 (of up to 24 bits and one more when rounding
\* carried) and exponent e1; beyond the f32 range the result is infinity
F32(neg, m1, e1) ==
    IF m1 = 0 THEN [f32 |-> [neg |-> neg, m |-> 0, e |-> 0]]
    ELSE IF m1 = TwoPow24
    THEN (IF e1 + 1 > 104 THEN [f32 |-> [neg |-> neg, m |-> 0, e |-> 128]]
          ELSE [f32 |-> [neg |-> neg, m |-> TwoPow23, e |-> e1 + 1]])
    ELSE IF e1 > 104 THEN [f32 |-> [neg |-> neg, m |-> 0, e |-> 128]]
    ELSE [f32 |-> [neg |-> neg, m |-> m1, e |-> e1]]

\* the bits an f64 significand loses as an f32: 29, and more when the f32
\* is subnormal
Shift32(e) == IF e + 29 < -149 THEN -149 - e ELSE 29

\* `x as f32` for an f64 x: the significand is cut from 53 to 24 bits (to
\* fewer for a subnormal result), round to nearest, ties to even
NarrowF64(x0) ==
    Let([x \in {x0} |->
        IF x.m = <<0>> THEN F32(x.neg, 0, 0)
        ELSE Let([h \in {Scaled([i |-> x.m, f |-> <<>>], -Shift32(x.e))} |->
            F32(x.neg,
                     DigitsToInt(h.i) + (IF RoundsUp(h.f, IsOdd(h.i)) THEN 1 ELSE 0),
                     x.e + Shift32(x.e))])])

\* the f32 of the f64 of the numbers of the documents, and of 0.0
F32OfF64 == [x \in {F64Of[v] : v \in Literals} \cup {ZERO_F64} |-> NarrowF64(x)]

\* `x as f32` for an f64 x
cast_f32(x) == IF x \in DOMAIN F32OfF64 THEN F32OfF64[x] ELSE NarrowF64(x)

\* the low 32 bits of a magnitude, as two 16-bit halves <<high, low>>
RECURSIVE Low32(_)
Low32(digits) ==
    IF digits = <<>> THEN <<0, 0>>
    ELSE LET p  == Low32(SubSeq(digits, 1, Len(digits) - 1))
             lo == p[2] * 10 + digits[Len(digits)]
             hi == p[1] * 10 + (lo \div 65536)
         IN  <<hi % 65536, lo % 65536>>

\* two's complement negation of 32 bits
Neg32(p) ==
    IF p = <<0, 0>> THEN p
    ELSE <<(65535 - p[1] + (IF p[2] = 0 THEN 1 ELSE 0)) % 65536,
           (65536 - p[2]) % 65536>>

\* cast_i32 with a slip: a value outside the i32 range goes to the nearer
\* end of the range
cast_i32_saturating(x) ==
    LET m == Low32(x.int)
        p == IF x.neg THEN Neg32(m) ELSE m
    IN  IF x.neg /\ ~DigitsLE(x.int, I32_MIN_MAG) THEN -32768 * 65536
        ELSE IF ~x.neg /\ ~DigitsLE(x.int, I32_MAX) THEN 32767 * 65536 + 65535
        ELSE IF p[1] >= 32768 THEN (p[1] - 65536) * 65536 + p[2]
        ELSE p[1] * 65536 + p[2]

\* `x as i32` for an i64 or u64 x: the low 32 bits read as a signed value
cast_i32(x) ==
    LET m == Low32(x.int)
        p == IF x.neg THEN Neg32(m) ELSE m
    IN  IF p[1] >= 32768 THEN (p[1] - 65536) * 65536 + p[2]
        ELSE p[1] * 65536 + p[2]

(***************************************************************************)
(* Result<T, tonic::Status>                                                *)
(***************************************************************************)
Ok(x) == [ok |-> TRUE, val |-> x]

Err(e) == [ok |-> FALSE, err |-> e]

\* Status::internal(message)
StatusInternal(message) == [code |-> "Internal", message |-> message]

(***************************************************************************)
(* Display for serde_json::Value (Value::to_string): compact JSON          *)
(***************************************************************************)
DIGIT == <<"0", "1", "2", "3", "4", "5", "6", "7", "8", "9">>

DigitText(digits) == [i \in 1..Len(digits) |-> DIGIT[digits[i] + 1]]

(***************************************************************************)
(* Display for an f64: the shortest digits that read back as the same f64, *)
(* in plain notation up to 16 integer digits and down to 0.00001, in       *)
(* exponent notation beyond, the exponent written with its sign            *)
(***************************************************************************)
\* digits d with the decimal point kk places after their start: 0.d * 10^kk
DecimalInt(c) ==
    IF c.kk >= Len(c.d) THEN c.d \o Zeros(c.kk - Len(c.d))
    ELSE IF c.kk <= 0 THEN <<0>>
    ELSE SubSeq(c.d, 1, c.kk)

DecimalFrac(c) ==
    IF c.kk >= Len(c.d) THEN <<>>
    ELSE IF c.kk <= 0 THEN Zeros(-c.kk) \o c.d
    ELSE SubSeq(c.d, c.kk + 1, Len(c.d))

\* the exact decimal expansion of a nonzero f64, as significant digits
ExactDigits(x) ==
    Let([v \in {Scaled([i |-> x.m, f |-> <<>>], x.e)} |->
    Let([z \in {LeadZeros(v.i \o v.f)} |->
        [d |-> SubSeq(v.i \o v.f, z + 1, Len(v.i) + Len(v.f)), kk |-> Len(v.i) - z]])])

\* whether the decimal c reads back as x
ReadsBack(c, x) == NearestF64(x.neg, DecimalInt(c), DecimalFrac(c)) = x

\* g cut to n digits, and the next decimal of n digits above
CutDown(g, n) == [d |-> SubSeq(g.d, 1, n), kk |-> g.kk]

CutUp(g, n) ==
    Let([inc \in {Incr(SubSeq(g.d, 1, n))} |->
        IF Len(inc) > n THEN [d |-> <<1>>, kk |-> g.kk + 1]
        ELSE [d |-> inc, kk |-> g.kk]])

\* of the two decimals of n digits around g, the nearer and the farther;
\* when g lies halfway between them, the nearer is the one whose last digit
\* is even
Nearer(g, n) ==
    IF RoundsUp(StripZeros(SubSeq(g.d, n + 1, Len(g.d))), IsOdd(SubSeq(g.d, 1, n)))
    THEN CutUp(g, n) ELSE CutDown(g, n)

Farther(g, n) ==
    IF RoundsUp(StripZeros(SubSeq(g.d, n + 1, Len(g.d))), IsOdd(SubSeq(g.d, 1, n)))
    THEN CutDown(g, n) ELSE CutUp(g, n)

\* the shortest decimal that reads back as x: with the least number of
\* digits that one of the two decimals around the exact expansion g of x
\* does (17 digits always do), or g itself when it is as short
Shortest(x) ==
    Let([g \in {ExactDigits(x)} |->
    Let([good \in {{n \in 1..Min(17, Len(g.d) - 1) :
             ReadsBack(Nearer(g, n), x) \/ ReadsBack(Farther(g, n), x)}} |->
        IF good = {} THEN g
        ELSE Let([n \in {CHOOSE n \in good : \A k \in good : n <= k} |->
        Let([c \in {IF ReadsBack(Nearer(g, n), x) THEN Nearer(g, n) ELSE Farther(g, n)} |->
                  [d |-> StripZeros(c.d), kk |-> c.kk]])])])])

\* the exponent k after the "e"
ExponentText(k) ==
    IF k < 0 THEN <<"-">> \o DigitText(IntToDigits(-k))
    ELSE <<"+">> \o DigitText(IntToDigits(k))

\* the digits d with the point kk places after their start
DecimalText(d, kk) ==
    IF Len(d) <= kk /\ kk <= 16
    THEN DigitText(d \o Zeros(kk - Len(d))) \o <<".", "0">>
    ELSE IF 0 < kk /\ kk <= 16
    THEN DigitText(SubSeq(d, 1, kk)) \o <<".">> \o DigitText(SubSeq(d, kk + 1, Len(d)))
    ELSE IF -5 < kk /\ kk <= 0
    THEN <<"0", ".">> \o DigitText(Zeros(-kk) \o d)
    ELSE IF Len(d) = 1 THEN DigitText(d) \o <<"e">> \o ExponentText(kk - 1)
    ELSE DigitText(<<d[1]>>) \o <<".">> \o DigitText(SubSeq(d, 2, Len(d)))
         \o <<"e">> \o ExponentText(kk - 1)

FloatText(x0) ==
    Let([x \in {x0} |->
        (IF x.neg THEN <<"-">> ELSE <<>>)
        \o (IF x.m = <<0>> THEN <<"0", ".", "0">>
            ELSE Let([c \in {Shortest(x)} |->
                DecimalText(c.d, c.kk)]))])

\* the text of the floats of the documents
FloatTexts == [v \in {w \in Literals : NumKind(w) = "Float"} |-> FloatText(F64Of[v])]

FloatTextOf(n) ==
    IF n \in DOMAIN FloatTexts THEN FloatTexts[n]
    ELSE FloatText(ToF64(n))

\* an integer prints its digits, a float the shortest digits of its f64
NumberText(n) ==
    IF NumKind(n) = "Float" THEN FloatTextOf(n)
    ELSE (IF n.neg THEN <<"-">> ELSE <<>>) \o DigitText(n.int)

EscapeSym(c) ==
    IF c = "\"" THEN <<"\\", "\"">>
    ELSE IF c = "\\" THEN <<"\\", "\\">>
    ELSE IF c = "\n" THEN <<"\\", "n">>
    ELSE IF c = "\t" THEN <<"\\", "t">>
    ELSE IF c = "\r" THEN <<"\\", "r">>
    ELSE IF c = "\f" THEN <<"\\", "f">>
    ELSE <<c>>

\* the escapes of s[lo..hi], one after the other
RECURSIVE EscapedRange(_, _, _)
EscapedRange(s, lo, hi) ==
    IF lo > hi THEN <<>>
    ELSE IF lo = hi THEN EscapeSym(s[lo])
    ELSE LET mid == (lo + hi) \div 2
         IN  EscapedRange(s, lo, mid) \o EscapedRange(s, mid + 1, hi)

Escaped(s) == EscapedRange(s, 1, Len(s))

Quoted(s) == <<"\"">> \o Escaped(s) \o <<"\"">>

RECURSIVE to_string(_), JoinValues(_), JoinEntries(_)
to_string(v) ==
    CASE v.t = "null" -> <<"null">>
      [] v.t = "bool" -> IF v.b THEN <<"true">> ELSE <<"false">>
      [] v.t = "num"  -> NumberText(v)
      [] v.t = "str"  -> Quoted(v.s)
      [] v.t = "arr"  -> <<"[">> \o JoinValues(v.a) \o <<"]">>
      [] v.t = "obj"  -> <<"{">> \o JoinEntries(v.o) \o <<"}">>

JoinValues(a) ==
    IF a = <<>> THEN <<>>
    ELSE to_string(Head(a))
         \o (IF Len(a) > 1 THEN <<",">> \o JoinValues(Tail(a)) ELSE <<>>)

JoinEntries(o) ==
    IF o = <<>> THEN <<>>
    ELSE Quoted(Head(o)[1]) \o <<":">> \o to_string(Head(o)[2])
         \o (IF Len(o) > 1 THEN <<",">> \o JoinEntries(Tail(o)) ELSE <<>>)

\* str::replace(", ", ","): every match, left to right.  Two matches of
\* ", " cannot overlap, so the result is s without the spaces that follow a
\* comma; s[lo..hi] is cut in halves to keep the evaluation shallow
RECURSIVE ReplacedRange(_, _, _)
ReplacedRange(s, lo, hi) ==
    IF lo > hi THEN <<>>
    ELSE IF lo = hi
    THEN (IF lo > 1 /\ s[lo] = " " /\ s[lo - 1] = "," THEN <<>> ELSE <<s[lo]>>)
    ELSE LET mid == (lo + hi) \div 2
         IN  ReplacedRange(s, lo, mid) \o ReplacedRange(s, mid + 1, hi)

replace_comma_space(s) == ReplacedRange(s, 1, Len(s))

(***************************************************************************)
(* json_response_converters.rs                                             *)
(***************************************************************************)
extract_string_value(json, key) ==
    unwrap_or(and_then(get(json, key), as_str), EMPTY_STR)

ShapeOf(array) ==
    [dim1 |-> cast_i32(unwrap_or(and_then(vec_get(array, 0), as_i64), ZERO)),
     dim2 |-> cast_i32(unwrap_or(and_then(vec_get(array, 1), as_i64), ZERO))]

\* extract_shape with a slip: an array shorter than two gives no Shape
extract_shape_two_or_none(json) ==
    LET arr == and_then(get(json, S("shape")), as_array)
    IN  IF arr.some /\ Len(arr.val) >= 2 THEN Some(ShapeOf(arr.val)) ELSE None

extract_shape(json) == map(and_then(get(json, S("shape")), as_array), ShapeOf)

\* extract_took with a slip: every number counts, truncated to its integer part
extract_took_any_number(json) ==
    LET Trunc(x) == [neg |-> x.neg, int |-> Scaled([i |-> x.m, f |-> <<>>], x.e).i]
    IN  cast_i32(unwrap_or(map(and_then(get(json, S("took")), as_f64), Trunc), ZERO))

extract_took(json) ==
    cast_i32(unwrap_or(and_then(get(json, S("took")), as_i64), ZERO))

\* EmbeddingOf with a slip: entries that are not numbers are skipped
EmbeddingOf_filtered(arr) ==
    LET inner == unwrap_or(as_array(arr), EMPTY_VEC)
        IsNumber(v) == as_f64(v).some
        kept == SelectSeq(inner, IsNumber)
    IN  [values |-> [j \in 1..Len(kept) |-> cast_f32(as_f64(kept[j]).val)]]

\* one Embedding of the `outputs` loop
EmbeddingOf(arr) ==
    LET inner == unwrap_or(as_array(arr), EMPTY_VEC)
    IN  [values |-> [j \in 1..Len(inner) |->
                        cast_f32(unwrap_or(as_f64(inner[j]), ZERO_F64))]]

\* json_to_embeddings_response with a slip: the text of the body is not read
json_to_embeddings_response_no_text(json) ==
    LET outputs == unwrap_or(and_then(get(json, S("outputs")), as_array), EMPTY_VEC)
    IN  Ok([embeddings |-> [i \in 1..Len(outputs) |-> EmbeddingOf(outputs[i])],
            took       |-> extract_took(json),
            text       |-> EMPTY_STR,
            shape      |-> extract_shape(json)])

json_to_embeddings_response(json) ==
    LET outputs == unwrap_or(and_then(get(json, S("outputs")), as_array), EMPTY_VEC)
    IN  Ok([embeddings |-> [i \in 1..Len(outputs) |-> EmbeddingOf(outputs[i])],
            took       |-> extract_took(json),
            text       |-> extract_string_value(json, S("text")),
            shape      |-> extract_shape(json)])

StartIdx(json) ==
    cast_i32(unwrap_or(and_then(get(json, S("start_idx")), as_u64), ZERO))

EndIdx(json) ==
    cast_i32(unwrap_or(and_then(get(json, S("end_idx")), as_u64), ZERO))

\* json_to_question_answer_response with a slip: question and context are
\* read from the body when it has them
json_to_question_answer_response_from_body(json, question, context) ==
    Ok([answer    |-> extract_string_value(json, S("answer")),
        start_idx |-> StartIdx(json),
        end_idx   |-> EndIdx(json),
        question  |-> unwrap_or(and_then(get(json, S("question")), as_str), question),
        context   |-> unwrap_or(and_then(get(json, S("context")), as_str), context),
        took      |-> extract_took(json)])

json_to_question_answer_response(json, question, context) ==
    Ok([answer    |-> extract_string_value(json, S("answer")),
        start_idx |-> StartIdx(json),
        end_idx   |-> EndIdx(json),
        question  |-> question,
        context   |-> context,
        took      |-> extract_took(json)])

\* FlattenLogits with a slip: the rows are taken last to first
RECURSIVE FlattenLogits_reversed(_)
FlattenLogits_reversed(outer) ==
    IF outer = <<>> THEN <<>>
    ELSE LET inner == unwrap_or(as_array(Head(outer)), EMPTY_VEC)
         IN  FlattenLogits_reversed(Tail(outer))
             \o [j \in 1..Len(inner) |->
                    cast_f32(unwrap_or(as_f64(inner[j]), ZERO_F64))]

\* flat_map over the outer array, then map to f32
RECURSIVE FlattenLogits(_)
FlattenLogits(outer) ==
    IF outer = <<>> THEN <<>>
    ELSE LET inner == unwrap_or(as_array(Head(outer)), EMPTY_VEC)
         IN  [j \in 1..Len(inner) |->
                 cast_f32(unwrap_or(as_f64(inner[j]), ZERO_F64))]
             \o FlattenLogits(Tail(outer))

json_to_sequence_classification_response(json) ==
    LET logits == unwrap_or(and_then(get(json, S("logits")), as_array), EMPTY_VEC)
    IN  Ok([text   |-> extract_string_value(json, S("text")),
            logits |-> FlattenLogits(logits),
            took   |-> extract_took(json),
            shape  |-> extract_shape(json)])

\* OffsetAt with a slip: both sides are 0 unless `offsets` holds two integers
OffsetAt_pair(value, index) ==
    LET offs  == unwrap_or(and_then(get(value, S("offsets")), as_array), EMPTY_VEC)
        whole == Len(offs) >= 2 /\ as_i64(offs[1]).some /\ as_i64(offs[2]).some
    IN  IF whole THEN cast_i32(as_i64(offs[index + 1]).val) ELSE 0

OffsetAt(value, index) ==
    LET At(arr) == and_then(vec_get(arr, index), as_i64)
        Of(offsets) == and_then(as_array(offsets), At)
    IN  cast_i32(unwrap_or(and_then(get(value, S("offsets")), Of), ZERO))

EntityOf(value) ==
    [id           |-> extract_string_value(value, S("id")),
     label        |-> extract_string_value(value, S("label")),
     text         |-> extract_string_value(value, S("text")),
     score        |-> unwrap_or(map(and_then(get(value, S("score")), as_f64), cast_f32),
                                cast_f32(ZERO_F64)),
     start_offset |-> OffsetAt(value, 0),
     end_offset   |-> OffsetAt(value, 1)]

json_to_token_classification_response(json) ==
    LET entities == unwrap_or(and_then(get(json, S("entities")), as_array), EMPTY_VEC)
    IN  Ok([took     |-> extract_took(json),
            text     |-> extract_string_value(json, S("text")),
            entities |-> [i \in 1..Len(entities) |-> EntityOf(entities[i])],
            shape    |-> extract_shape(json)])

json_to_sentence_transformers_response(json) ==
    LET outputs == unwrap_or(and_then(get(json, S("outputs")), as_array), EMPTY_VEC)
    IN  Ok([embeddings |-> [i \in 1..Len(outputs) |-> EmbeddingOf(outputs[i])],
            took       |-> extract_took(json),
            text       |-> extract_string_value(json, S("text")),
            shape      |-> extract_shape(json)])

\* the string one metadata value is rendered to
MetadataValue(v) ==
    IF is_array(v) THEN replace_comma_space(to_string(v))
    ELSE IF is_string(v) THEN v.s
    ELSE to_string(v)

\* the HashMap collected from the object's entries
MetadataMap(o) ==
    [k \in {o[i][1] : i \in 1..Len(o)} |->
        MetadataValue(o[CHOOSE i \in 1..Len(o) : o[i][1] = k][2])]

\* json_to_metadata_response with a slip: a non-object defaults to no entries
json_to_metadata_response_lenient(json) ==
    Ok([metadata |-> MetadataMap(unwrap_or(as_object(json), <<>>))])

json_to_metadata_response(json) ==
    IF as_object(json).some
    THEN Ok([metadata |-> MetadataMap(as_object(json).val)])
    ELSE Err(StatusInternal(S("Failed to parse metadata JSON as object")))

(***************************************************************************)
(* clients/rest.rs: MightyServerRestClient                                 *)
(***************************************************************************)
OPS == {"health_check", "embeddings", "question_answering",
        "sentence_transformers", "sequence_classification",
        "token_classification", "metadata"}

\* the percent-encoding of the Url reqwest parses the request's URL into,
\* for a character after the "?": in the query a control character, a
\* space, ", <, >, ' and a character outside ASCII are encoded; in the
\* fragment, after a "#", ' is not
UrlSym(c, fragment) ==
    IF c = " " THEN "%20"
    ELSE IF c = "\"" THEN "%22"
    ELSE IF c = "<" THEN "%3C"
    ELSE IF c = ">" THEN "%3E"
    ELSE IF c = "'" /\ ~fragment THEN "%27"
    ELSE IF c = "\f" THEN "%0C"
    ELSE IF c = "é" THEN "%C3%A9"
    ELSE IF c = NBSP THEN "%C2%A0"
    ELSE IF c = SHY THEN "%C2%AD"
    ELSE IF c = BOM THEN "%EF%BB%BF"
    ELSE c

\* the URL parser drops a tab or newline wherever it stands
NotTabOrNewline(c) == c \notin {"\t", "\n", "\r"}

\* Display of the Url reqwest parsed the request's URL into: the control
\* characters and spaces at either end are cut off, tabs and newlines are
\* dropped, and what is left is percent-encoded
UrlText(url) ==
    Let([kept \in {{k \in 1..Len(url) : url[k] \notin {" ", "\t", "\n", "\r", "\f"}}} |->
        IF kept = {} THEN <<>>
        ELSE Let([t \in {SelectSeq(SubSeq(url, CHOOSE k \in kept : \A j \in kept : k <= j,
                                               CHOOSE k \in kept : \A j \in kept : k >= j),
                                   NotTabOrNewline)} |->
            [k \in 1..Len(t) |-> UrlSym(t[k], \E h \in 1..(k - 1) : t[h] = "#")] \o <<>>])])

\* what a reqwest::Error prints after the URL: nothing, or (in the versions
\* of reqwest that print the source of the error) the cause
SendCauses ==
    {<<>>,
     S(": error trying to connect: tcp connect error: Connection refused (os error 111)")}

\* what the network gives back for one GET: no response at all, or a status
\* line and a body; the body may fail to arrive, may not be JSON, or is the
\* text of one JSON document.  The error of a GET that got no response
\* prints the URL of the request
SendError(url, cause) ==
    [sent |-> FALSE,
     error |-> S("error sending request for url (") \o UrlText(url) \o S(")") \o cause]

HttpResponse(status, body) == [sent |-> TRUE, status |-> status, body |-> body]

BodyUnread == [read |-> FALSE, error |-> S("error decoding response body")]

BodyNotJson == [read |-> TRUE, parses |-> FALSE,
                error |-> S("expected value at line 1 column 1")]

\* the body "<TAB>": a string with a raw control character in it
BodyControlChar ==
    [read |-> TRUE, parses |-> FALSE,
     error |-> <<"control character (", "\\", "u0000-", "\\",
                 "u001F) found while parsing a string at line 1 column 2">>]

BodyJson(json) == [read |-> TRUE, parses |-> TRUE, json |-> json]

StatusCode_OK == 200

\* char::escape_debug as <str as Debug> applies it: ' stays as it is; a
\* control character without a short escape, and a character that does not
\* count as printable (NBSP, SHY and BOM do not, an accented letter does),
\* is written \u{hex}
DebugSym(c) ==
    IF c = "\"" THEN <<"\\", "\"">>
    ELSE IF c = "\\" THEN <<"\\", "\\">>
    ELSE IF c = "\n" THEN <<"\\", "n">>
    ELSE IF c = "\t" THEN <<"\\", "t">>
    ELSE IF c = "\r" THEN <<"\\", "r">>
    ELSE IF c = "\f" THEN <<"\\", "u{c}">>
    ELSE IF c = NBSP THEN <<"\\", "u{a0}">>
    ELSE IF c = SHY THEN <<"\\", "u{ad}">>
    ELSE IF c = BOM THEN <<"\\", "u{feff}">>
    ELSE <<c>>

\* format!("{:?}", s) for a str s
RECURSIVE DebugRange(_, _, _)
DebugRange(s, lo, hi) ==
    IF lo > hi THEN <<>>
    ELSE IF lo = hi THEN DebugSym(s[lo])
    ELSE LET mid == (lo + hi) \div 2
         IN  DebugRange(s, lo, mid) \o DebugRange(s, mid + 1, hi)

DebugStr(s) == <<"\"">> \o DebugRange(s, 1, Len(s)) \o <<"\"">>

\* format!("{}", e) for a tonic::Status e: code, message, details and
\* metadata, each with {:?}
StatusDisplay(e) ==
    <<"status: ", e.code, ", message: ">> \o DebugStr(e.message)
    \o <<", details: [], metadata: MetadataMap { headers: {} }">>

\* .map_err(|e| Status::internal(format!("<prefix>{}", e))) on a Result
\* whose error is a Status
map_err_status(result, prefix) ==
    IF result.ok THEN result
    ELSE Err(StatusInternal(S(prefix) \o StatusDisplay(result.err)))

\* fetch_json with a slip: a body that is no JSON document counts as null
fetch_json_lenient(reply) ==
    IF ~reply.sent THEN Err(reply.error)
    ELSE IF ~reply.body.read THEN Err(reply.body.error)
    ELSE IF ~reply.body.parses THEN Ok(JNull)
    ELSE Ok(reply.body.json)

\* fetch_json with a slip: a status outside 2xx is an error
fetch_json_checks_status(reply) ==
    IF ~reply.sent THEN Err(reply.error)
    ELSE IF reply.status < 200 \/ reply.status >= 300
    THEN Err(S("HTTP status client or server error"))
    ELSE IF ~reply.body.read THEN Err(reply.body.error)
    ELSE IF ~reply.body.parses THEN Err(reply.body.error)
    ELSE Ok(reply.body.json)

\* self.client.get(url).send().await?.text().await? ; serde_json::from_str
fetch_json(reply) ==
    IF ~reply.sent THEN Err(reply.error)
    ELSE IF ~reply.body.read THEN Err(reply.body.error)
    ELSE IF ~reply.body.parses THEN Err(reply.body.error)
    ELSE Ok(reply.body.json)

\* the URL each method formats before it sends the GET
rest_url(base, op, request) ==
    CASE op = "health_check" -> base \o S("/healthcheck")
      [] op = "embeddings" -> base \o S("/embeddings?text=") \o request.text
      [] op = "question_answering" ->
            base \o S("/question-answering?question=") \o request.question
                 \o S("&context=") \o request.context
      [] op = "sentence_transformers" ->
            base \o S("/sentence-transformers?text=") \o request.text
      [] op = "sequence_classification" ->
            base \o S("/sequence-classification?text=") \o request.text
      [] op = "token_classification" ->
            base \o S("/token-classification?text=") \o request.text
      [] op = "metadata" -> base \o S("/metadata")

\* rest_health_check with a slip: every 2xx status counts as healthy
rest_health_check_any_2xx(request, reply) ==
    IF ~reply.sent
    THEN Err(StatusInternal(S("HTTP request error: ") \o reply.error))
    ELSE IF reply.status >= 200 /\ reply.status < 300
    THEN Ok([success |-> TRUE])
    ELSE Err(StatusInternal(S("Healthcheck failed")))

\* the methods of impl MightyClient for MightyServerRestClient, from the
\* point where the GET has been answered
rest_health_check(request, reply) ==
    IF ~reply.sent
    THEN Err(StatusInternal(S("HTTP request error: ") \o reply.error))
    ELSE IF reply.status = StatusCode_OK
    THEN Ok([success |-> TRUE])
    ELSE Err(StatusInternal(S("Healthcheck failed")))

rest_embeddings(request, reply) ==
    LET json == fetch_json(reply)
    IN  IF ~json.ok
        THEN Err(StatusInternal(S("Error fetching embeddings: ") \o json.err))
        ELSE map_err_status(json_to_embeddings_response(json.val),
                            "Error creating response: ")

rest_question_answering(request, reply) ==
    LET json == fetch_json(reply)
    IN  IF ~json.ok
        THEN Err(StatusInternal(S("Failed to parse JSON: ") \o json.err))
        ELSE map_err_status(
                json_to_question_answer_response(json.val, request.question,
                                                 request.context),
                "Error creating response: ")

rest_sentence_transformers(request, reply) ==
    LET json == fetch_json(reply)
    IN  IF ~json.ok
        THEN Err(StatusInternal(S("Failed to parse JSON: ") \o json.err))
        ELSE map_err_status(json_to_sentence_transformers_response(json.val),
                            "Error creating response: ")

rest_sequence_classification(request, reply) ==
    LET json == fetch_json(reply)
    IN  IF ~json.ok
        THEN Err(StatusInternal(S("Failed to parse JSON: ") \o json.err))
        ELSE map_err_status(json_to_sequence_classification_response(json.val),
                            "Error creating response: ")

rest_token_classification(request, reply) ==
    LET json == fetch_json(reply)
    IN  IF ~json.ok
        THEN Err(StatusInternal(S("Failed to parse JSON: ") \o json.err))
        ELSE map_err_status(json_to_token_classification_response(json.val),
                            "Error creating response: ")

\* rest_metadata with a slip: the decoder's error is wrapped like the
\* errors of the other decoders
rest_metadata_wrapped(request, reply) ==
    LET json == fetch_json(reply)
    IN  IF ~json.ok
        THEN Err(StatusInternal(S("Failed to fetch metadata JSON: ") \o json.err))
        ELSE map_err_status(json_to_metadata_response(json.val),
                            "Error creating response: ")

rest_metadata(request, reply) ==
    LET json == fetch_json(reply)
    IN  IF ~json.ok
        THEN Err(StatusInternal(S("Failed to fetch metadata JSON: ") \o json.err))
        ELSE json_to_metadata_response(json.val)

\* the documents a client method hands to its decoder: the one fetch_json
\* returned, if it returned one; health_check has no decoder
rest_decoded(op, reply) ==
    IF op = "health_check" THEN <<>>
    ELSE LET json == fetch_json(reply)
         IN  IF json.ok THEN <<json.val>> ELSE <<>>

\* dyn MightyClient dispatch on the REST client
client_call(op, request, reply) ==
    CASE op = "health_check" -> rest_health_check(request, reply)
      [] op = "embeddings" -> rest_embeddings(request, reply)
      [] op = "question_answering" -> rest_question_answering(request, reply)
      [] op = "sentence_transformers" -> rest_sentence_transformers(request, reply)
      [] op = "sequence_classification" -> rest_sequence_classification(request, reply)
      [] op = "token_classification" -> rest_token_classification(request, reply)
      [] op = "metadata" -> rest_metadata(request, reply)

(***************************************************************************)
(* server_proxy/mod.rs: impl MightyInference for MightyInferenceServerProxy*)
(***************************************************************************)
\* proxy_forward with a slip: sentence_transformers calls the client's
\* embeddings method
proxy_forward_to_embeddings(op, request) ==
    [method |-> IF op = "sentence_transformers" THEN "embeddings" ELSE op,
     request |-> request]

\* self.client.<op>(request): the method the proxy method `op` calls on the
\* client it holds, and the request it passes
proxy_forward(op, request) == [method |-> op, request |-> request]

proxy_embeddings(result) == map_err_status(result, "Error fetching embeddings: ")

proxy_question_answering(result) ==
    map_err_status(result, "Error fetching question answering: ")

proxy_sentence_transformers(result) ==
    map_err_status(result, "Error fetching sentence transformers: ")

proxy_sequence_classification(result) ==
    map_err_status(result, "Error fetching sequence classification: ")

proxy_token_classification(result) ==
    map_err_status(result, "Error fetching token classification: ")

proxy_metadata(result) == map_err_status(result, "Error fetching metadata: ")

\* proxy_health_check with a slip: a failed check is answered success = false
proxy_health_check_unhealthy(result) ==
    IF result.ok THEN result ELSE Ok([success |-> FALSE])

proxy_health_check(result) == map_err_status(result, "Error getting healthcheck: ")

proxy_return(op, result) ==
    CASE op = "health_check" -> proxy_health_check(result)
      [] op = "embeddings" -> proxy_embeddings(result)
      [] op = "question_answering" -> proxy_question_answering(result)
      [] op = "sentence_transformers" -> proxy_sentence_transformers(result)
      [] op = "sequence_classification" -> proxy_sequence_classification(result)
      [] op = "token_classification" -> proxy_token_classification(result)
      [] op = "metadata" -> proxy_metadata(result)

(***************************************************************************)
(* Inputs: the requests callers send and the replies the backend gives     *)
(***************************************************************************)
ReqTexts == {<<"test", " ", "text">>, <<"a", "&", "context", "=", "b">>}

TextRequests == {[text |-> t] : t \in ReqTexts}

QuestionAnswerRequests == {[question |-> q, context |-> c] : q \in ReqTexts, c \in ReqTexts}

Empty == [empty |-> TRUE]

Requests(op) ==
    IF op \in {"health_check", "metadata"} THEN {Empty}
    ELSE IF op = "question_answering" THEN QuestionAnswerRequests
    ELSE TextRequests

Statuses == {200, 201, 204, 404, 500}

Replies ==
    {HttpResponse(st, b) : st \in Statuses, b \in {BodyUnread, BodyNotJson, BodyControlChar}}
    \cup {HttpResponse(200, BodyJson(d)) : d \in Documents}
    \cup {HttpResponse(st, BodyJson(d)) :
             st \in Statuses,
             d \in Roots \cup {TestEmbeddingsJson, TestQuestionAnswerJson, TestMetadataJson}}

(***************************************************************************)
(* The gateway at work.  A handler is suspended at each await.  A call is  *)
(* idle; waiting, its GET sent and send() pending; reading, the response   *)
(* arrived and text() pending; or done with its outcome.  health_check     *)
(* awaits send() only and never reads the body.                            *)
(***************************************************************************)
Calls == {1}

Idle == [pc |-> "idle"]

\* what send() resolves to: an error, or a response whose body is unread
ResponseHead(status) == [sent |-> TRUE, status |-> status]

Heads(url) ==
    {SendError(url, cause) : cause \in SendCauses} \cup {ResponseHead(st) : st \in Statuses}

\* what text() can resolve to on a response of the status
Bodies(status) == {r.body : r \in {q \in Replies : q.sent /\ q.status = status}}

\* MightyServerRestClient::new(base_url), MightyInferenceServerProxy::new
Init ==
    /\ base_url = S("http://localhost:5050")
    /\ calls = [c \in Calls |-> Idle]

\* tonic hands request to the proxy method `op`, which calls the client it
\* holds; the client method formats the URL and sends the GET
Call(c, op, request) ==
    /\ calls[c].pc = "idle"
    /\ LET f == proxy_forward(op, request)
       IN  calls' = [calls EXCEPT ![c] =
                        [pc |-> "waiting", op |-> op, request |-> request,
                         forwarded |-> <<f>>,
                         get |-> <<rest_url(base_url, f.method, f.request)>>]]
    /\ UNCHANGED base_url

\* the call as it ends: the client method finishes on the reply and the
\* proxy method returns its result
Finished(call, reply, result) ==
    [pc |-> "done", op |-> call.op, request |-> call.request,
     forwarded |-> call.forwarded, get |-> call.get,
     reply |-> reply,
     decoded |-> rest_decoded(call.forwarded[1].method, reply),
     result |-> result,
     outcome |-> <<proxy_return(call.op, result)>>]

\* SendResolved with a slip: a GET that could not be sent is sent once more
SendResolved_retrying(c, head) ==
    /\ calls[c].pc = "waiting"
    /\ LET f == calls[c].forwarded[1]
       IN  IF ~head.sent /\ Len(calls[c].get) < 2
           THEN calls' = [calls EXCEPT ![c].get = @ \o @]
           ELSE IF ~head.sent \/ f.method = "health_check"
           THEN calls' = [calls EXCEPT ![c] =
                            Finished(calls[c], head,
                                     client_call(f.method, f.request, head))]
           ELSE calls' = [calls EXCEPT ![c] =
                            [pc |-> "reading", op |-> calls[c].op,
                             request |-> calls[c].request,
                             forwarded |-> calls[c].forwarded,
                             get |-> calls[c].get, head |-> head]]
    /\ UNCHANGED base_url

\* send().await resolves.  On an error the `?` of fetch_json (the match of
\* health_check) ends the method; health_check ends on a response as well,
\* by its status; every other method goes on to text().await
SendResolved(c, head) ==
    /\ calls[c].pc = "waiting"
    /\ LET f == calls[c].forwarded[1]
       IN  IF ~head.sent \/ f.method = "health_check"
           THEN calls' = [calls EXCEPT ![c] =
                            Finished(calls[c], head,
                                     client_call(f.method, f.request, head))]
           ELSE calls' = [calls EXCEPT ![c] =
                            [pc |-> "reading", op |-> calls[c].op,
                             request |-> calls[c].request,
                             forwarded |-> calls[c].forwarded,
                             get |-> calls[c].get, head |-> head]]
    /\ UNCHANGED base_url

\* TextResolved with a slip: the client keeps answers, and a call is
\* answered with the result of a completed call of the same operation when
\* there is one
TextResolved_cached(c, body) ==
    /\ calls[c].pc = "reading"
    /\ LET f == calls[c].forwarded[1]
           reply == HttpResponse(calls[c].head.status, body)
           same == {d \in DOMAIN calls : calls[d].pc = "done" /\ calls[d].op = calls[c].op}
           result == IF same # {} THEN calls[CHOOSE d \in same : TRUE].result
                     ELSE client_call(f.method, f.request, reply)
       IN  calls' = [calls EXCEPT ![c] = Finished(calls[c], reply, result)]
    /\ UNCHANGED base_url

\* text().await resolves: the body is parsed and decoded, the client method
\* finishes and the proxy method returns its result
TextResolved(c, body) ==
    /\ calls[c].pc = "reading"
    /\ LET f == calls[c].forwarded[1]
           reply == HttpResponse(calls[c].head.status, body)
       IN  calls' = [calls EXCEPT ![c] =
                        Finished(calls[c], reply,
                                 client_call(f.method, f.request, reply))]
    /\ UNCHANGED base_url

\* the outcome has gone back to the caller; nothing of the call is kept
Return(c) ==
    /\ calls[c].pc = "done"
    /\ calls' = [calls EXCEPT ![c] = Idle]
    /\ UNCHANGED base_url

Next ==
    \/ \E c \in Calls, op \in OPS : \E request \in Requests(op) : Call(c, op, request)
    \/ \E c \in Calls :
          calls[c].pc = "waiting" /\ \E head \in Heads(calls[c].get[1]) : SendResolved(c, head)
    \/ \E c \in Calls, st \in Statuses : \E body \in Bodies(st) :
          calls[c].pc = "reading" /\ calls[c].head.status = st /\ TextResolved(c, body)
    \/ \E c \in Calls : Return(c)

Spec == Init /\ [][Next]_vars

(***************************************************************************)
(* Several calls in flight at once: tonic runs each inbound call as a task *)
(* of its own, and the tasks interleave at their awaits.                   *)
(***************************************************************************)
\* calls in flight at the same time
MaxCalls == 2

ConcCalls == 1..MaxCalls

ConcRequests(op) ==
    IF op = "question_answering"
    THEN {[question |-> <<"test", " ", "text">>, context |-> <<"a", "&", "context", "=", "b">>]}
    ELSE Requests(op)

ConcOPS == {"health_check", "embeddings", "question_answering", "metadata"}

ConcReplies ==
    {HttpResponse(200, BodyNotJson),
     HttpResponse(200, BodyJson(EchoedTextJson)),
     HttpResponse(500, BodyJson(JArr(<<>>)))}

ConcHeads(url) == {SendError(url, <<>>)} \cup {ResponseHead(r.status) : r \in ConcReplies}

ConcBodies(status) == {r.body : r \in {q \in ConcReplies : q.sent /\ q.status = status}}

InitConc ==
    /\ base_url = S("http://localhost:5050")
    /\ calls = [c \in ConcCalls |-> Idle]

NextConc ==
    \/ \E c \in ConcCalls, op \in ConcOPS :
          \E request \in ConcRequests(op) : Call(c, op, request)
    \/ \E c \in ConcCalls :
          calls[c].pc = "waiting" /\ \E head \in ConcHeads(calls[c].get[1]) : SendResolved(c, head)
    \/ \E c \in ConcCalls, st \in Statuses : \E body \in ConcBodies(st) :
          calls[c].pc = "reading" /\ calls[c].head.status = st /\ TextResolved(c, body)
    \/ \E c \in ConcCalls : Return(c)

SpecConc == InitConc /\ [][NextConc]_vars

(***************************************************************************)
(* What the properties below talk about                                    *)
(***************************************************************************)
Done(c) == calls[c].pc = "done"

\* the call is done and the backend's body was a JSON document
Decoded(c) ==
    /\ Done(c)
    /\ calls[c].reply.sent /\ calls[c].op # "health_check"
    /\ calls[c].reply.body.read /\ calls[c].reply.body.parses

Json(c) == calls[c].reply.body.json

DocHas(d, key) == d.t = "obj" /\ \E i \in 1..Len(d.o) : d.o[i][1] = key

DocAt(d, key) == d.o[CHOOSE i \in 1..Len(d.o) : d.o[i][1] = key][2]

\* the document has an array (a string) under the key
HasArray(d, key) == DocHas(d, key) /\ DocAt(d, key).t = "arr"

HasString(d, key) == DocHas(d, key) /\ DocAt(d, key).t = "str"

\* a JSON integer: a number written without fraction
IsInteger(v) == v.t = "num" /\ v.frac = <<>> /\ v.exp = <<>>

HasInteger(d, key) == DocHas(d, key) /\ IsInteger(DocAt(d, key))

\* a JSON integer within the signed 32-bit range, and its value
InInt32(v) ==
    /\ IsInteger(v)
    /\ IF v.neg THEN DigitsLE(v.int, I32_MIN_MAG) ELSE DigitsLE(v.int, I32_MAX)

RECURSIVE SignedValue(_, _)
SignedValue(digits, sign) ==
    IF digits = <<>> THEN 0
    ELSE SignedValue(SubSeq(digits, 1, Len(digits) - 1), sign) * 10
         + sign * digits[Len(digits)]

IntValue(v) == SignedValue(v.int, IF v.neg THEN -1 ELSE 1)

\* the f32 a JSON number stands for: the f32 nearest to the f64 of the
\* number; and some f32 values written out
F32Of(v) == cast_f32(ToF64(v))

F32Zero == [f32 |-> [neg |-> FALSE, m |-> 0, e |-> 0]]

F32Half == [f32 |-> [neg |-> FALSE, m |-> 8388608, e |-> -24]]

F32One == [f32 |-> [neg |-> FALSE, m |-> 8388608, e |-> -23]]

FiveDecoders == {"embeddings", "sentence_transformers", "question_answering",
                 "sequence_classification", "token_classification"}

(***************************************************************************)
(* C1                                                                      *)
(***************************************************************************)
\* C1: whatever JSON document the backend sends, the embeddings,
\* sentence-transformers, question-answer, sequence-classification and
\* token-classification decoders succeed, and each field that is missing or
\* of the wrong type holds its zero value: took = 0, text / answer = "",
\* start_idx / end_idx = 0, embeddings / logits / entities = empty.
C1_DecodersDefaultNeverFail ==
    \A c \in Calls :
        Decoded(c) /\ calls[c].op \in FiveDecoders =>
            LET d  == Json(c)
                r  == calls[c].result
                op == calls[c].op
            IN  /\ r.ok
                /\ ~HasInteger(d, S("took")) => r.val.took = 0
                /\ op # "question_answering" =>
                      (~HasString(d, S("text")) => r.val.text = <<>>)
                /\ op = "question_answering" =>
                      /\ ~HasString(d, S("answer")) => r.val.answer = <<>>
                      /\ ~HasInteger(d, S("start_idx")) => r.val.start_idx = 0
                      /\ ~HasInteger(d, S("end_idx")) => r.val.end_idx = 0
                /\ op \in {"embeddings", "sentence_transformers"} =>
                      (~HasArray(d, S("outputs")) => r.val.embeddings = <<>>)
                /\ op = "sequence_classification" =>
                      (~HasArray(d, S("logits")) => r.val.logits = <<>>)
                /\ op = "token_classification" =>
                      (~HasArray(d, S("entities")) => r.val.entities = <<>>)

\* an embeddings call whose body has `took` as a string came back with took = 0
C1_Witness ==
    \E c \in Calls :
        /\ Decoded(c) /\ calls[c].op = "embeddings"
        /\ DocHas(Json(c), S("took")) /\ DocAt(Json(c), S("took")).t = "str"
        /\ calls[c].result.ok /\ calls[c].result.val.took = 0
        /\ calls[c].result.val.embeddings = <<>>

(***************************************************************************)
(* C2                                                                      *)
(***************************************************************************)
\* C2: metadata decode fails, with the decode error, exactly when the root
\* of the document is not an object; it succeeds for every object, the
\* empty one included; and when it fails the call through the REST client
\* and the gateway ends in an error.
C2_MetadataErrorIffNotObject ==
    \A c \in Calls :
        Decoded(c) /\ calls[c].op = "metadata" =>
            /\ calls[c].result.ok <=> Json(c).t = "obj"
            /\ ~calls[c].result.ok =>
                  /\ calls[c].result.err.message =
                        <<"Failed to parse metadata JSON as object">>
                  /\ ~calls[c].outcome[1].ok

\* a metadata call answered with a JSON array ended in an error
C2_Witness ==
    \E c \in Calls :
        /\ Decoded(c) /\ calls[c].op = "metadata"
        /\ Json(c).t = "arr"
        /\ ~calls[c].result.ok /\ ~calls[c].outcome[1].ok

(***************************************************************************)
(* C3                                                                      *)
(***************************************************************************)
NoSpaceAfterComma(text) ==
    \A i \in 1..(Len(text) - 1) : ~(text[i] = "," /\ text[i + 1] = " ")

\* C3: for every JSON object, metadata decode gives a mapping with the
\* object's keys, and under each key: the string itself, unquoted and
\* unescaped, for a string; the compact JSON serialization, which has no
\* space after a comma, for an array; the default JSON text for every other
\* value.
C3_MetadataRendering ==
    \A c \in Calls :
        Decoded(c) /\ calls[c].op = "metadata" /\ Json(c).t = "obj" =>
            LET d == Json(c)
                r == calls[c].result
            IN  /\ r.ok
                /\ DOMAIN r.val.metadata = {d.o[i][1] : i \in 1..Len(d.o)}
                /\ \A i \in 1..Len(d.o) :
                      LET v   == d.o[i][2]
                          out == r.val.metadata[d.o[i][1]]
                      IN  CASE v.t = "str" -> out = v.s
                            [] v.t = "arr" -> out = to_string(v) /\ NoSpaceAfterComma(out)
                            [] OTHER -> out = to_string(v)

(***************************************************************************)
(* C4                                                                      *)
(***************************************************************************)
IsNumber(v) == v.t = "num"

EmbeddingsShaped == {"embeddings", "sentence_transformers"}

\* C4 as first stated: the values of each Embedding are the numeric entries
\* of the inner array, in order; an entry that is not a number contributes
\* nothing, so the Embedding is shorter by the number of such entries.
C4_Original_NonNumbersFiltered ==
    \A c \in Calls :
        Decoded(c) /\ calls[c].op \in EmbeddingsShaped
                   /\ HasArray(Json(c), S("outputs")) =>
            LET outputs == DocAt(Json(c), S("outputs")).a
                embs    == calls[c].result.val.embeddings
            IN  \A i \in 1..Len(outputs) :
                    outputs[i].t = "arr" =>
                        LET numbers == SelectSeq(outputs[i].a, IsNumber)
                        IN  embs[i].values = [j \in 1..Len(numbers) |-> F32Of(numbers[j])]

\* C4, amended: there is one Embedding per element of `outputs`; the values
\* of each follow the inner array entry by entry: a number gives its f32
\* value, an entry that is not a number gives 0.0 in its place, so the
\* Embedding is as long as the inner array; an element of `outputs` that is
\* no array gives an Embedding without values.
C4_NonNumbersZeroFilled ==
    \A c \in Calls :
        Decoded(c) /\ calls[c].op \in EmbeddingsShaped
                   /\ HasArray(Json(c), S("outputs")) =>
            LET outputs == DocAt(Json(c), S("outputs")).a
                embs    == calls[c].result.val.embeddings
            IN  /\ Len(embs) = Len(outputs)
                /\ \A i \in 1..Len(outputs) :
                      IF outputs[i].t = "arr"
                      THEN /\ Len(embs[i].values) = Len(outputs[i].a)
                           /\ \A j \in 1..Len(outputs[i].a) :
                                 embs[i].values[j] =
                                    IF IsNumber(outputs[i].a[j])
                                    THEN F32Of(outputs[i].a[j]) ELSE F32Zero
                      ELSE embs[i].values = <<>>

\* an inner array [number, non-number] came back as two values, the first
\* 0.5 or 1.0 as f32, the second 0.0
C4_Witness ==
    \E c \in Calls :
        /\ Decoded(c) /\ calls[c].op = "sentence_transformers"
        /\ HasArray(Json(c), S("outputs"))
        /\ \E i \in 1..Len(DocAt(Json(c), S("outputs")).a) :
              LET row == DocAt(Json(c), S("outputs")).a[i]
              IN  /\ row.t = "arr" /\ Len(row.a) = 2
                  /\ IsNumber(row.a[1]) /\ ~IsNumber(row.a[2])
                  /\ calls[c].result.val.embeddings[i].values
                        = <<F32Of(row.a[1]), F32Zero>>
                  /\ F32Of(row.a[1]) \in {F32Half, F32One}

(***************************************************************************)
(* C5                                                                      *)
(***************************************************************************)
RowLen(v) == IF v.t = "arr" THEN Len(v.a) ELSE 0

\* the number of entries in the rows before row i
RECURSIVE EntriesBefore(_, _)
EntriesBefore(outer, i) ==
    IF i = 1 THEN 0 ELSE EntriesBefore(outer, i - 1) + RowLen(outer[i - 1])

\* C5: sequence-classification decode flattens `logits` row by row: the
\* output is as long as the inner arrays together, entry j of inner array i
\* stands right after all entries of the inner arrays before i and the
\* first j - 1 of its own, and an element of the outer array that is no
\* array contributes nothing.
C5_LogitsRowMajor ==
    \A c \in Calls :
        Decoded(c) /\ calls[c].op = "sequence_classification"
                   /\ HasArray(Json(c), S("logits")) =>
            LET outer  == DocAt(Json(c), S("logits")).a
                logits == calls[c].result.val.logits
            IN  /\ Len(logits) = EntriesBefore(outer, Len(outer) + 1)
                /\ \A i \in 1..Len(outer) : \A j \in 1..RowLen(outer[i]) :
                      IsNumber(outer[i].a[j]) =>
                          logits[EntriesBefore(outer, i) + j] = F32Of(outer[i].a[j])

\* logits [[n], [m]] with n # m came back as <<n, m>>: 1.0 and 0.5 in the
\* order of the rows
C5_Witness ==
    \E c \in Calls :
        /\ Decoded(c) /\ calls[c].op = "sequence_classification"
        /\ HasArray(Json(c), S("logits"))
        /\ LET outer == DocAt(Json(c), S("logits")).a
           IN  /\ Len(outer) = 2
               /\ outer[1].t = "arr" /\ outer[2].t = "arr"
               /\ Len(outer[1].a) = 1 /\ Len(outer[2].a) = 1
               /\ IsNumber(outer[1].a[1]) /\ IsNumber(outer[2].a[1])
               /\ outer[1].a[1] # outer[2].a[1]
               /\ calls[c].result.val.logits
                     = <<F32Of(outer[1].a[1]), F32Of(outer[2].a[1])>>
               /\ calls[c].result.val.logits \in {<<F32One, F32Half>>, <<F32Half, F32One>>}

(***************************************************************************)
(* C6                                                                      *)
(***************************************************************************)
\* the `offsets` array of an entity value, empty when it has none
OffsetsOf(e) ==
    IF HasArray(e, S("offsets")) THEN DocAt(e, S("offsets")).a ELSE <<>>

\* the decoded integer `got` reads entry `index` (from 0) of `array`: it is
\* the entry's value when that is an integer of the 32-bit range, and 0
\* when the entry is missing or no integer
ReadsEntry(got, array, index) ==
    /\ (index < Len(array) /\ InInt32(array[index + 1])) =>
          got = IntValue(array[index + 1])
    /\ (index >= Len(array) \/ ~IsInteger(array[index + 1])) => got = 0

\* C6: token-classification decode gives one Entity per element of
\* `entities`, in order, with start_offset = offsets[0] and end_offset =
\* offsets[1] (integers of the 32-bit range of the field); each side is 0,
\* whatever the other side is, when `offsets` is absent, is no array, is too
\* short for that index or holds no integer there.
C6_EntityOffsets ==
    \A c \in Calls :
        Decoded(c) /\ calls[c].op = "token_classification"
                   /\ HasArray(Json(c), S("entities")) =>
            LET ents == DocAt(Json(c), S("entities")).a
                out  == calls[c].result.val.entities
            IN  /\ Len(out) = Len(ents)
                /\ \A i \in 1..Len(ents) :
                      /\ ReadsEntry(out[i].start_offset, OffsetsOf(ents[i]), 0)
                      /\ ReadsEntry(out[i].end_offset, OffsetsOf(ents[i]), 1)

\* entities [.., {"offsets": ["x", 5]}] gave start 0 / end 5 and
\* {"offsets": [7]} gave start 7 / end 0
C6_Witness ==
    \E c \in Calls :
        /\ Decoded(c) /\ calls[c].op = "token_classification"
        /\ HasArray(Json(c), S("entities"))
        /\ LET ents == DocAt(Json(c), S("entities")).a
               out  == calls[c].result.val.entities
           IN  /\ Len(ents) = 2
               /\ OffsetsOf(ents[1]) = <<JStr(S("x")), JInt(<<5>>)>>
               /\ out[1].start_offset = 0 /\ out[1].end_offset = 5
               /\ OffsetsOf(ents[2]) = <<JInt(<<7>>)>>
               /\ out[2].start_offset = 7 /\ out[2].end_offset = 0

(***************************************************************************)
(* C7                                                                      *)
(***************************************************************************)
\* C7: every question_answering call that returns a response returns the
\* request's question and context, whatever the backend's body holds.
C7_QuestionContextEchoed ==
    \A c \in Calls :
        Done(c) /\ calls[c].op = "question_answering" /\ calls[c].outcome[1].ok =>
            /\ calls[c].outcome[1].val.question = calls[c].request.question
            /\ calls[c].outcome[1].val.context = calls[c].request.context

\* the body carried another `question`, and the response has the request's
C7_Witness ==
    \E c \in Calls :
        /\ Decoded(c) /\ calls[c].op = "question_answering"
        /\ HasString(Json(c), S("question"))
        /\ DocAt(Json(c), S("question")).s # calls[c].request.question
        /\ calls[c].outcome[1].ok
        /\ calls[c].outcome[1].val.question = calls[c].request.question

(***************************************************************************)
(* C8                                                                      *)
(***************************************************************************)
ShapeOps == {"embeddings", "sentence_transformers", "sequence_classification",
             "token_classification"}

\* C8: shape decode gives no Shape exactly when `shape` is missing or no
\* array; for every array, the empty one and those longer than two
\* included, it gives a Shape with dim1 = entry 0 and dim2 = entry 1
\* (integers of the 32-bit range of the field), each 0, whatever the other
\* is, when that entry is missing or no integer.
C8_ShapeDecode ==
    \A c \in Calls :
        Decoded(c) /\ calls[c].op \in ShapeOps =>
            LET d     == Json(c)
                shape == calls[c].result.val.shape
            IN  /\ shape.some <=> HasArray(d, S("shape"))
                /\ HasArray(d, S("shape")) =>
                      /\ ReadsEntry(shape.val.dim1, DocAt(d, S("shape")).a, 0)
                      /\ ReadsEntry(shape.val.dim2, DocAt(d, S("shape")).a, 1)

\* shape [] gave the Shape (0, 0)
C8_Witness ==
    \E c \in Calls :
        /\ Decoded(c) /\ calls[c].op = "sequence_classification"
        /\ HasArray(Json(c), S("shape")) /\ DocAt(Json(c), S("shape")).a = <<>>
        /\ calls[c].result.val.shape = Some([dim1 |-> 0, dim2 |-> 0])

(***************************************************************************)
(* C9                                                                      *)
(***************************************************************************)
\* C9: health_check returns success = true exactly when the backend answers
\* the GET with status 200, whatever the body (it is not read); every other
\* status, other 2xx included, and every failure to connect gives an error;
\* no health_check returns success = false.
C9_HealthCheckStatus200 ==
    \A c \in Calls :
        Done(c) /\ calls[c].op = "health_check" =>
            LET reply == calls[c].reply
            IN  /\ calls[c].result.ok <=> (reply.sent /\ reply.status = 200)
                /\ calls[c].result.ok => calls[c].result.val = [success |-> TRUE]
                /\ calls[c].outcome[1].ok <=> (reply.sent /\ reply.status = 200)
                /\ calls[c].outcome[1].ok => calls[c].outcome[1].val = [success |-> TRUE]

\* status 204 gave an error
C9_Witness ==
    \E c \in Calls :
        /\ Done(c) /\ calls[c].op = "health_check"
        /\ calls[c].reply.sent /\ calls[c].reply.status = 204
        /\ ~calls[c].result.ok /\ ~calls[c].outcome[1].ok

(***************************************************************************)
(* C10                                                                     *)
(***************************************************************************)
\* the words with which the gateway names each operation
OperationNamed ==
    [op \in OPS |->
        CASE op = "health_check" -> "Error getting healthcheck: "
          [] op = "embeddings" -> "Error fetching embeddings: "
          [] op = "question_answering" -> "Error fetching question answering: "
          [] op = "sentence_transformers" -> "Error fetching sentence transformers: "
          [] op = "sequence_classification" -> "Error fetching sequence classification: "
          [] op = "token_classification" -> "Error fetching token classification: "
          [] op = "metadata" -> "Error fetching metadata: "]

Contains(text, part) ==
    \E k \in 0..(Len(text) - Len(part)) : SubSeq(text, k + 1, k + Len(part)) = part

\* the text a Rust string literal stands for: its escapes undone
RECURSIVE Unescaped(_)
Unescaped(s) ==
    IF s = <<>> THEN <<>>
    ELSE IF s[1] = "\\" /\ Len(s) >= 2
    THEN <<(CASE s[2] = "n" -> "\n"
              [] s[2] = "t" -> "\t"
              [] s[2] = "r" -> "\r"
              [] s[2] = "u{c}" -> "\f"
              [] s[2] = "u{a0}" -> NBSP
              [] s[2] = "u{ad}" -> SHY
              [] s[2] = "u{feff}" -> BOM
              [] OTHER -> s[2])>> \o Unescaped(SubSeq(s, 3, Len(s)))
    ELSE <<s[1]>> \o Unescaped(Tail(s))

\* whether the text holds the part written as a Rust string literal:
\* between double quotes, what needs an escape escaped
ContainsLiteral(text, part) ==
    \E i, j \in 1..Len(text) :
        /\ i < j /\ text[i] = "\"" /\ text[j] = "\""
        /\ Unescaped(SubSeq(text, i + 1, j - 1)) = part

\* the characters {:?} does not write as they are
NeedsEscape == {"\"", "\\", "\n", "\t", "\r", "\f", NBSP, SHY, BOM}

\* C10 as first stated: for each of the seven operations the gateway
\* returns an error exactly when the client it holds returned one; that
\* error is an RPC error whose message names the operation and contains
\* the text of the client's error.
C10_Original_ContainsTextVerbatim ==
    \A c \in Calls :
        Done(c) =>
            LET r == calls[c].result
                o == calls[c].outcome[1]
            IN  /\ o.ok <=> r.ok
                /\ ~r.ok =>
                      /\ o.err.code = "Internal"
                      /\ o.err.message[1] = OperationNamed[calls[c].op]
                      /\ Contains(o.err.message, r.err.message)

\* C10, amended: for each of the seven operations the gateway returns an
\* error exactly when the client it holds returned one; that error is an
\* RPC error whose message starts with the words naming the operation and
\* holds the text of the client's error as a string literal: between double
\* quotes, with ", \, control characters and characters that do not count
\* as printable escaped.  A text without such characters is contained as
\* it is.
C10_GatewayErrorCarriesClientError ==
    \A c \in Calls :
        Done(c) =>
            LET r == calls[c].result
                o == calls[c].outcome[1]
            IN  /\ o.ok <=> r.ok
                /\ ~r.ok =>
                      /\ o.err.code = "Internal"
                      /\ o.err.message[1] = OperationNamed[calls[c].op]
                      /\ ContainsLiteral(o.err.message, r.err.message)
                      /\ (\A k \in 1..Len(r.err.message) : r.err.message[k] \notin NeedsEscape)
                            => Contains(o.err.message, r.err.message)

\* a body with a raw control character in a string: the parser's error
\* names the range \u0000-\u001F, and the gateway's error holds that text with
\* its backslashes doubled, so not as it is
C10_Witness ==
    \E c \in Calls :
        /\ Done(c) /\ calls[c].op = "embeddings"
        /\ calls[c].reply.sent /\ calls[c].reply.body = BodyControlChar
        /\ ~calls[c].result.ok /\ ~calls[c].outcome[1].ok
        /\ calls[c].outcome[1].err.message[1] = "Error fetching embeddings: "
        /\ Contains(calls[c].result.err.message, <<"\\", "u0000-">>)
        /\ Contains(calls[c].outcome[1].err.message, <<"\\", "\\", "u0000-">>)
        /\ ~Contains(calls[c].outcome[1].err.message, calls[c].result.err.message)
        /\ ContainsLiteral(calls[c].outcome[1].err.message, calls[c].result.err.message)

(***************************************************************************)
(* C11                                                                     *)
(***************************************************************************)
\* C11: the gateway is a pure pass-through: each call invokes the
\* same-named method of the held client once, with the inbound request
\* unchanged, and a response of the client goes back to the caller
\* unchanged.
C11_PurePassThrough ==
    \A c \in Calls :
        /\ calls[c].pc # "idle" =>
              calls[c].forwarded =
                  <<[method |-> calls[c].op, request |-> calls[c].request]>>
        /\ Done(c) /\ calls[c].result.ok => calls[c].outcome = <<calls[c].result>>

\* a sentence_transformers call whose client answered with embeddings
C11_Witness ==
    \E c \in Calls :
        /\ Done(c) /\ calls[c].op = "sentence_transformers"
        /\ calls[c].forwarded[1].method = "sentence_transformers"
        /\ calls[c].forwarded[1].request = calls[c].request
        /\ calls[c].result.ok /\ calls[c].result.val.embeddings # <<>>
        /\ calls[c].outcome[1] = calls[c].result

(***************************************************************************)
(* C12                                                                     *)
(***************************************************************************)
\* the backend's reply was taken in whole: it arrived, and for the
\* operations that read a body the body was read and was a JSON document
WholeReply(c) ==
    /\ calls[c].reply.sent
    /\ calls[c].op # "health_check" =>
          /\ calls[c].reply.body.read /\ calls[c].reply.body.parses
          /\ calls[c].decoded = <<calls[c].reply.body.json>>

OneOutcome(c) ==
    /\ Len(calls[c].outcome) = 1
    /\ LET o == calls[c].outcome[1]
       IN  \/ o.ok /\ DOMAIN o = {"ok", "val"}
           \/ ~o.ok /\ DOMAIN o = {"ok", "err"}

\* C12: a call has no outcome before it completes; a completed call has
\* exactly one outcome, a response or an error and not both; a response is
\* only built from a reply that was taken in whole; the outcome of a
\* completed call is not replaced by another one.
C12_ExactlyOneOutcome ==
    /\ [](\A c \in Calls :
            /\ ~Done(c) => "outcome" \notin DOMAIN calls[c]
            /\ Done(c) => OneOutcome(c) /\ (calls[c].outcome[1].ok => WholeReply(c)))
    /\ [][\A c \in Calls :
            Done(c) => \/ calls'[c].pc = "idle"
                       \/ calls'[c].outcome = calls[c].outcome]_vars

\* the body arrived but was no JSON document: one error and no response
C12_Witness ==
    \E c \in Calls :
        /\ Done(c) /\ calls[c].op = "embeddings"
        /\ calls[c].reply.sent /\ calls[c].reply.body.read
        /\ ~calls[c].reply.body.parses
        /\ Len(calls[c].outcome) = 1 /\ ~calls[c].outcome[1].ok
        /\ DOMAIN calls[c].outcome[1] = {"ok", "err"}

(***************************************************************************)
(* C13                                                                     *)
(***************************************************************************)
\* the GETs call c has issued so far
Gets(c) == IF calls[c].pc = "idle" THEN <<>> ELSE calls[c].get

\* C13: a call in flight or completed has issued exactly one GET, to the URL
\* of its own operation and request; the GET is out before the outcome
\* exists; whatever the backend answers (no connection, any status, any
\* body) no further GET follows.
C13_ExactlyOneGet ==
    /\ [](\A c \in Calls :
            calls[c].pc # "idle" =>
                Gets(c) = <<rest_url(base_url, calls[c].op, calls[c].request)>>)
    /\ [][\A c \in Calls :
            /\ calls[c].pc \in {"waiting", "reading"} => calls'[c].get = calls[c].get
            /\ calls'[c].pc = "done" =>
                  /\ calls[c].pc \in {"waiting", "reading", "done"}
                  /\ Len(Gets(c)) = 1]_vars

\* the backend could not be reached: the call ended in an error after its
\* one GET
C13_Witness ==
    \E c \in Calls :
        /\ Done(c) /\ calls[c].op = "question_answering"
        /\ ~calls[c].reply.sent /\ ~calls[c].outcome[1].ok
        /\ Len(calls[c].get) = 1

(***************************************************************************)
(* C14                                                                     *)
(***************************************************************************)
\* the fixed path of each operation
FixedPath ==
    [op \in OPS |->
        CASE op = "health_check" -> "/healthcheck"
          [] op = "embeddings" -> "/embeddings"
          [] op = "question_answering" -> "/question-answering"
          [] op = "sentence_transformers" -> "/sentence-transformers"
          [] op = "sequence_classification" -> "/sequence-classification"
          [] op = "token_classification" -> "/token-classification"
          [] op = "metadata" -> "/metadata"]

\* a symbol of a URL spelled out, so that every "?" "&" "=" stands alone
Spelled(sym) ==
    IF \E op \in OPS : sym = FixedPath[op] \o "?text="
    THEN <<FixedPath[CHOOSE op \in OPS : sym = FixedPath[op] \o "?text="],
           "?", "text", "=">>
    ELSE IF sym = "/question-answering?question="
    THEN <<"/question-answering", "?", "question", "=">>
    ELSE IF sym = "&context=" THEN <<"&", "context", "=">>
    ELSE <<sym>>

RECURSIVE SpelledOut(_)
SpelledOut(url) ==
    IF url = <<>> THEN <<>> ELSE Spelled(Head(url)) \o SpelledOut(Tail(url))

\* position of the first sep in s, 0 if there is none
FirstOf(s, sep) ==
    IF \E i \in 1..Len(s) : s[i] = sep
    THEN CHOOSE i \in 1..Len(s) : s[i] = sep /\ \A j \in 1..(i - 1) : s[j] # sep
    ELSE 0

RECURSIVE SplitOn(_, _)
SplitOn(s, sep) ==
    LET k == FirstOf(s, sep)
    IN  IF k = 0 THEN <<s>>
        ELSE <<SubSeq(s, 1, k - 1)>> \o SplitOn(SubSeq(s, k + 1, Len(s)), sep)

\* percent-decoding of a query component
PercentDecoded(s) ==
    [i \in 1..Len(s) |->
        CASE s[i] = "%26" -> "&"
          [] s[i] = "%3D" -> "="
          [] s[i] = "%20" -> " "
          [] s[i] = "+" -> " "
          [] OTHER -> s[i]]

\* the part of the URL before the query
UrlPath(url) ==
    LET u == SpelledOut(url)
        k == FirstOf(u, "?")
    IN  IF k = 0 THEN u ELSE SubSeq(u, 1, k - 1)

\* the parameters <<name, value>> a server reads from the URL's query
QueryParams(url) ==
    LET u == SpelledOut(url)
        k == FirstOf(u, "?")
        parts == IF k = 0 THEN <<>> ELSE SplitOn(SubSeq(u, k + 1, Len(u)), "&")
        Param(p) ==
            LET e == FirstOf(p, "=")
            IN  IF e = 0 THEN <<PercentDecoded(p), <<>> >>
                ELSE <<PercentDecoded(SubSeq(p, 1, e - 1)),
                       PercentDecoded(SubSeq(p, e + 1, Len(p)))>>
    IN  [i \in 1..Len(parts) |-> Param(parts[i])]

\* the parameters the caller's request stands for
CallerParams(op, request) ==
    IF op \in {"health_check", "metadata"} THEN <<>>
    ELSE IF op = "question_answering"
    THEN << <<S("question"), request.question>>, <<S("context"), request.context>> >>
    ELSE << <<S("text"), request.text>> >>

\* C14: the URL of a call's GET is the base URL followed by the operation's
\* fixed path, and its query carries exactly the parameters of the request
\* (text, or question and context) with exactly the caller's values.
C14_QueryCarriesCallerValues ==
    \A c \in Calls :
        calls[c].pc # "idle" =>
            /\ UrlPath(calls[c].get[1]) = base_url \o <<FixedPath[calls[c].op]>>
            /\ QueryParams(calls[c].get[1]) =
                   CallerParams(calls[c].op, calls[c].request)

(***************************************************************************)
(* C15                                                                     *)
(***************************************************************************)
\* the decoder of each body-reading operation, applied to a document
DecoderResult(op, request, json) ==
    CASE op = "embeddings" -> json_to_embeddings_response(json)
      [] op = "question_answering" ->
            json_to_question_answer_response(json, request.question, request.context)
      [] op = "sentence_transformers" -> json_to_sentence_transformers_response(json)
      [] op = "sequence_classification" ->
            json_to_sequence_classification_response(json)
      [] op = "token_classification" -> json_to_token_classification_response(json)
      [] op = "metadata" -> json_to_metadata_response(json)

\* C15: for the six operations that read a body, a body that is not valid
\* JSON gives an internal error and no document reaches the decoder; a body
\* that is valid JSON is handed to the decoder and the client returns
\* exactly what the decoder returns for it.
C15_InvalidJsonOrDecoderResult ==
    \A c \in Calls :
        (/\ Done(c) /\ calls[c].op # "health_check"
         /\ calls[c].reply.sent /\ calls[c].reply.body.read) =>
            IF ~calls[c].reply.body.parses
            THEN /\ ~calls[c].result.ok
                 /\ calls[c].result.err.code = "Internal"
                 /\ calls[c].decoded = <<>>
            ELSE /\ calls[c].decoded = <<Json(c)>>
                 /\ calls[c].result =
                        DecoderResult(calls[c].op, calls[c].request, Json(c))

\* a token_classification body that is no JSON: an internal error, nothing
\* decoded
C15_Witness ==
    \E c \in Calls :
        /\ Done(c) /\ calls[c].op = "token_classification"
        /\ calls[c].reply.sent /\ calls[c].reply.body.read
        /\ ~calls[c].reply.body.parses
        /\ ~calls[c].result.ok /\ calls[c].result.err.code = "Internal"
        /\ calls[c].decoded = <<>>

(***************************************************************************)
(* C16                                                                     *)
(***************************************************************************)
\* what tells the caller that the backend could not be reached: the RPC
\* code Unavailable, or at least a message that does not put the failure
\* down to the parsing of a body
SignalsUnavailability(err) ==
    \/ err.code = "Unavailable"
    \/ err.message[1] # "Failed to parse JSON: "

\* C16: when the GET fails at the transport level (no response from the
\* backend), each of the seven operations returns an error that signals
\* backend unavailability, and never a response.
C16_TransportFailureSignalsUnavailability ==
    \A c \in Calls :
        Done(c) /\ ~calls[c].reply.sent =>
            /\ ~calls[c].result.ok
            /\ SignalsUnavailability(calls[c].result.err)

(***************************************************************************)
(* C17                                                                     *)
(***************************************************************************)
\* C17, as stated: an embeddings call that succeeds returns a response whose
\* text is the text of the request.
C17_Original_TextOfRequest ==
    \A c \in Calls :
        Done(c) /\ calls[c].op = "embeddings" /\ calls[c].outcome[1].ok =>
            calls[c].outcome[1].val.text = calls[c].request.text

\* C17: an embeddings call that succeeds returns a response whose text is
\* the string under `text` in the backend's body, and the empty string when
\* the body has no string there; it is the text of the request when the
\* backend's body carries that text.
C17_TextOfBackendBody ==
    \A c \in Calls :
        Done(c) /\ calls[c].op = "embeddings" /\ calls[c].outcome[1].ok =>
            /\ calls[c].outcome[1].val.text =
                   (IF HasString(Json(c), S("text"))
                    THEN DocAt(Json(c), S("text")).s ELSE <<>>)
            /\ (HasString(Json(c), S("text"))
                /\ DocAt(Json(c), S("text")).s = calls[c].request.text)
                  => calls[c].outcome[1].val.text = calls[c].request.text

\* the backend answered with another text than the one requested, and that
\* text is in the response
C17_Witness ==
    \E c \in Calls :
        /\ Done(c) /\ calls[c].op = "embeddings" /\ calls[c].outcome[1].ok
        /\ calls[c].request.text = <<"test", " ", "text">>
        /\ HasString(Json(c), S("text"))
        /\ DocAt(Json(c), S("text")).s = <<"Sample", " ", "text">>
        /\ calls[c].outcome[1].val.text = <<"Sample", " ", "text">>

(***************************************************************************)
(* C18                                                                     *)
(***************************************************************************)
\* C18: with several calls in flight, in every interleaving, the outcome of
\* a call is what its own request and the reply to its own GET give; a step
\* of one call changes nothing of another call; the base URL the client was
\* built with never changes.
C18_CallsIndependent ==
    /\ [](\A c \in ConcCalls :
            /\ calls[c].pc # "idle" =>
                  calls[c].get = <<rest_url(S("http://localhost:5050"),
                                            calls[c].op, calls[c].request)>>
            /\ Done(c) =>
                  calls[c].outcome =
                      <<proxy_return(calls[c].op,
                                     client_call(calls[c].op, calls[c].request,
                                                 calls[c].reply))>>)
    /\ [][/\ base_url' = base_url
          /\ \A c, d \in ConcCalls :
                c # d /\ calls'[c] # calls[c] => calls'[d] = calls[d]]_vars

\* two embeddings calls at once, answered differently: one got the
\* backend's text, the other an error
C18_Witness ==
    \E c, d \in ConcCalls :
        /\ c # d /\ Done(c) /\ Done(d)
        /\ calls[c].op = "embeddings" /\ calls[d].op = "embeddings"
        /\ calls[c].outcome[1].ok /\ ~calls[d].outcome[1].ok
        /\ ~calls[d].reply.sent

(***************************************************************************)
(* C19                                                                     *)
(***************************************************************************)
\* C19: for the six operations other than health_check the result is the
\* same whatever the status of the backend's reply: it is what the same
\* body gives under status 200.  A body that is valid JSON is decoded under
\* any status, 404 and 500 included, and comes back as a response, with
\* defaults where the body lacks the fields (for metadata: when the
\* document is an object).
C19_StatusCodeIgnored ==
    \A c \in Calls :
        (Done(c) /\ calls[c].op # "health_check" /\ calls[c].reply.sent) =>
            /\ calls[c].result =
                   client_call(calls[c].op, calls[c].request,
                               HttpResponse(200, calls[c].reply.body))
            /\ (Decoded(c) /\ (calls[c].op = "metadata" => Json(c).t = "obj")) =>
                   /\ calls[c].result.ok
                   /\ calls[c].outcome[1].ok

\* status 404 with the body {}: an embeddings response made of defaults
C19_Witness ==
    \E c \in Calls :
        /\ Decoded(c) /\ calls[c].op = "embeddings"
        /\ calls[c].reply.status = 404 /\ Json(c) = JObj(<<>>)
        /\ calls[c].outcome[1].ok
        /\ calls[c].outcome[1].val =
               [embeddings |-> <<>>, took |-> 0, text |-> <<>>, shape |-> None]

(***************************************************************************)
(* C20                                                                     *)
(***************************************************************************)
\* Reading a JSON text back (serde_json::from_str): white space between the
\* tokens is skipped, a string runs up to its closing quote with \" \\ \n
\* \t \r \f unescaped, a number keeps its digits and its exponent and is
\* rejected when it is out of the range of an f64
Parsed(val, next) == [ok |-> TRUE, val |-> val, next |-> next]

NotParsed == [ok |-> FALSE]

SymAt(s, i) == IF i >= 1 /\ i <= Len(s) THEN s[i] ELSE "<end>"

IsDigitSym(c) == \E k \in 1..10 : DIGIT[k] = c

DigitOf(c) == (CHOOSE k \in 1..10 : DIGIT[k] = c) - 1

RECURSIVE SkipWs(_, _)
SkipWs(s, i) ==
    IF SymAt(s, i) \in {" ", "\n", "\t", "\r"} THEN SkipWs(s, i + 1) ELSE i

\* the string whose opening quote is before position i
RECURSIVE ParseStringBody(_, _, _)
ParseStringBody(s, i, acc) ==
    LET c == SymAt(s, i)
    IN  IF c \in {"<end>", "\n", "\t", "\r", "\f"} THEN NotParsed
        ELSE IF c = "\"" THEN Parsed(acc, i + 1)
        ELSE IF c = "\\"
        THEN LET e == SymAt(s, i + 1)
             IN  IF e = "n" THEN ParseStringBody(s, i + 2, Append(acc, "\n"))
                 ELSE IF e = "t" THEN ParseStringBody(s, i + 2, Append(acc, "\t"))
                 ELSE IF e = "r" THEN ParseStringBody(s, i + 2, Append(acc, "\r"))
                 ELSE IF e = "f" THEN ParseStringBody(s, i + 2, Append(acc, "\f"))
                 ELSE IF e \in {"\"", "\\"}
                 THEN ParseStringBody(s, i + 2, Append(acc, e))
                 ELSE NotParsed
        ELSE ParseStringBody(s, i + 1, Append(acc, c))

RECURSIVE ParseDigits(_, _, _)
ParseDigits(s, i, acc) ==
    IF IsDigitSym(SymAt(s, i))
    THEN ParseDigits(s, i + 1, Append(acc, DigitOf(s[i])))
    ELSE Parsed(acc, i)

\* the exponent after a number that ends before position i: none, or e / E,
\* a sign or none, and digits
ParseExponent(s, i) ==
    IF SymAt(s, i) \notin {"e", "E"} THEN Parsed(0, i)
    ELSE LET signed == SymAt(s, i + 1) \in {"+", "-"}
             digits == ParseDigits(s, IF signed THEN i + 2 ELSE i + 1, <<>>)
         IN  IF digits.val = <<>> THEN NotParsed
             ELSE Parsed(IF SymAt(s, i + 1) = "-" THEN -DigitsToInt(digits.val)
                         ELSE DigitsToInt(digits.val), digits.next)

ParseNumber(s, i) ==
    LET neg  == SymAt(s, i) = "-"
        int  == ParseDigits(s, IF neg THEN i + 1 ELSE i, <<>>)
        dot  == SymAt(s, int.next) = "."
        frac == IF dot THEN ParseDigits(s, int.next + 1, <<>>) ELSE Parsed(<<>>, int.next)
        ex   == ParseExponent(s, frac.next)
        n    == IF ex.next = frac.next THEN JNum(neg, int.val, frac.val)
                ELSE JExp(neg, int.val, frac.val, ex.val)
    IN  IF int.val = <<>> \/ (Len(int.val) > 1 /\ int.val[1] = 0)
           \/ (dot /\ frac.val = <<>>) \/ ~ex.ok
        THEN NotParsed
        ELSE IF NumKind(n) = "Float" /\ ~ParseF64(n).some THEN NotParsed
        ELSE Parsed(n, ex.next)

RECURSIVE ParseValue(_, _), ParseElems(_, _, _), ParseMembers(_, _, _)
ParseValue(s, i0) ==
    LET i == SkipWs(s, i0)
        c == SymAt(s, i)
    IN  CASE c = "null" -> Parsed(JNull, i + 1)
          [] c = "true" -> Parsed(JBool(TRUE), i + 1)
          [] c = "false" -> Parsed(JBool(FALSE), i + 1)
          [] c = "\"" ->
                LET str == ParseStringBody(s, i + 1, <<>>)
                IN  IF str.ok THEN Parsed(JStr(str.val), str.next) ELSE NotParsed
          [] c = "[" ->
                LET j == SkipWs(s, i + 1)
                IN  IF SymAt(s, j) = "]" THEN Parsed(JArr(<<>>), j + 1)
                    ELSE ParseElems(s, j, <<>>)
          [] c = "{" ->
                LET j == SkipWs(s, i + 1)
                IN  IF SymAt(s, j) = "}" THEN Parsed(JObj(<<>>), j + 1)
                    ELSE ParseMembers(s, j, <<>>)
          [] c = "-" \/ IsDigitSym(c) -> ParseNumber(s, i)
          [] OTHER -> NotParsed

\* the elements of an array from position i on, up to its "]"
ParseElems(s, i, acc) ==
    LET v == ParseValue(s, i)
    IN  IF ~v.ok THEN NotParsed
        ELSE LET j == SkipWs(s, v.next)
             IN  IF SymAt(s, j) = "," THEN ParseElems(s, j + 1, Append(acc, v.val))
                 ELSE IF SymAt(s, j) = "]" THEN Parsed(JArr(Append(acc, v.val)), j + 1)
                 ELSE NotParsed

\* the members of an object from position i on, up to its "}"
ParseMembers(s, i, acc) ==
    LET k == SkipWs(s, i)
    IN  IF SymAt(s, k) # "\"" THEN NotParsed
        ELSE LET key == ParseStringBody(s, k + 1, <<>>)
             IN  IF ~key.ok \/ SymAt(s, SkipWs(s, key.next)) # ":" THEN NotParsed
                 ELSE LET v == ParseValue(s, SkipWs(s, key.next) + 1)
                      IN  IF ~v.ok THEN NotParsed
                          ELSE LET j == SkipWs(s, v.next)
                                   more == Append(acc, <<key.val, v.val>>)
                               IN  IF SymAt(s, j) = "," THEN ParseMembers(s, j + 1, more)
                                   ELSE IF SymAt(s, j) = "}"
                                   THEN Parsed(JObj(more), j + 1)
                                   ELSE NotParsed

\* the document a text is, when it is one document and nothing more
from_str(s) ==
    LET v == ParseValue(s, 1)
    IN  IF v.ok /\ SkipWs(s, v.next) = Len(s) + 1 THEN Some(v.val) ELSE None

\* Value == Value: numbers are equal as serde_json::Number (an integer by
\* its value, a float by its f64, never an integer and a float), arrays and
\* objects entry by entry
RECURSIVE SameValue(_, _)
SameValue(a, b) ==
    IF a.t # b.t THEN FALSE
    ELSE CASE a.t = "num" ->
                /\ NumKind(a) = NumKind(b)
                /\ IF NumKind(a) = "Float"
                   THEN LET x == ToF64(a)
                            y == ToF64(b)
                        IN  x = y \/ (x.m = <<0>> /\ y.m = <<0>>)
                   ELSE a.neg = b.neg /\ a.int = b.int
           [] a.t = "arr" ->
                /\ Len(a.a) = Len(b.a)
                /\ \A k \in 1..Len(a.a) : SameValue(a.a[k], b.a[k])
           [] a.t = "obj" ->
                /\ Len(a.o) = Len(b.o)
                /\ \A k \in 1..Len(a.o) :
                      a.o[k][1] = b.o[k][1] /\ SameValue(a.o[k][2], b.o[k][2])
           [] OTHER -> a = b

\* C20: for every array-valued metadata entry, reading the rendered string
\* as JSON gives back the original array, also when a string element of the
\* array contains a comma followed by a space.
C20_ArrayRenderingRoundTrips ==
    \A c \in Calls :
        (Decoded(c) /\ calls[c].op = "metadata" /\ calls[c].result.ok) =>
            \A i \in 1..Len(Json(c).o) :
                LET v == Json(c).o[i][2]
                    back == from_str(calls[c].result.val.metadata[Json(c).o[i][1]])
                IN  v.t = "arr" => back.some /\ SameValue(back.val, v)

(***************************************************************************)
(* C21                                                                     *)
(***************************************************************************)
\* a JSON integer within the signed 64-bit range / the unsigned 64-bit range
InInt64(v) ==
    /\ IsInteger(v)
    /\ IF v.neg THEN DigitsLE(v.int, I64_MIN_MAG) ELSE DigitsLE(v.int, I64_MAX)

InUInt64(v) == IsInteger(v) /\ ~v.neg /\ DigitsLE(v.int, U64_MAX)

IsNegative(v) == IsInteger(v) /\ v.neg

\* the low 32 bits of an integer, read as a signed value: the integer itself
\* within the 32-bit range, and for the wider integers the backend sends
\*   2^31 -> -2^31,  2^32 + 7 -> 7,  2^63 -> 0,  -(2^31 + 1) -> 2^31 - 1,
\*   2^63 + 7 -> 7,  2^64 + 7 -> 7,  -(2^63 + 7) -> -7
Wrapped32(v) ==
    CASE InInt32(v) -> IntValue(v)
      [] v = TwoPow31 -> -2147483647 - 1
      [] v = TwoPow32Plus7 -> 7
      [] v = TwoPow63 -> 0
      [] v = BelowI32 -> 2147483647
      [] v = TwoPow63Plus7 -> 7
      [] v = TwoPow64Plus7 -> 7
      [] v = BelowI64 -> -7

\* entry `index` (from 0) of an array paired with the integer decoded from
\* it, when the array has that entry
EntryRead(got, array, index) ==
    IF index < Len(array) THEN {<<got, array[index + 1]>>} ELSE {}

\* the pairs <<decoded i32, JSON value it was read from>> of a decoded call,
\* for the fields read as signed 64-bit: took, the shape dims and the
\* entity offsets
SignedReads(c) ==
    LET d == Json(c)
        r == calls[c].result.val
    IN  (IF calls[c].op \in FiveDecoders /\ DocHas(d, S("took"))
         THEN {<<r.took, DocAt(d, S("took"))>>} ELSE {})
        \cup (IF calls[c].op \in ShapeOps /\ HasArray(d, S("shape"))
              THEN EntryRead(r.shape.val.dim1, DocAt(d, S("shape")).a, 0)
                   \cup EntryRead(r.shape.val.dim2, DocAt(d, S("shape")).a, 1)
              ELSE {})
        \cup (IF calls[c].op = "token_classification" /\ HasArray(d, S("entities"))
              THEN UNION {EntryRead(r.entities[i].start_offset,
                                    OffsetsOf(DocAt(d, S("entities")).a[i]), 0)
                          \cup EntryRead(r.entities[i].end_offset,
                                         OffsetsOf(DocAt(d, S("entities")).a[i]), 1) :
                          i \in 1..Len(DocAt(d, S("entities")).a)}
              ELSE {})

\* the same for the fields read as unsigned 64-bit: start_idx and end_idx
UnsignedReads(c) ==
    LET d == Json(c)
        r == calls[c].result.val
    IN  IF calls[c].op # "question_answering" THEN {}
        ELSE (IF DocHas(d, S("start_idx"))
              THEN {<<r.start_idx, DocAt(d, S("start_idx"))>>} ELSE {})
             \cup (IF DocHas(d, S("end_idx"))
                   THEN {<<r.end_idx, DocAt(d, S("end_idx"))>>} ELSE {})

\* C21, as stated: a decoded integer field equals the JSON integer when that
\* lies in the signed 32-bit range; every integer outside that range comes
\* out as its low 32 bits read as a signed value, never as the default 0;
\* a negative start_idx or end_idx comes out as 0.
C21_Original_AlwaysLow32Bits ==
    \A c \in Calls :
        Decoded(c) /\ calls[c].op \in FiveDecoders =>
            /\ \A rd \in SignedReads(c) :
                  IsInteger(rd[2]) => rd[1] = Wrapped32(rd[2])
            /\ \A rd \in UnsignedReads(c) :
                  IsInteger(rd[2]) =>
                      rd[1] = (IF IsNegative(rd[2]) THEN 0 ELSE Wrapped32(rd[2]))

\* C21: a decoded integer field equals the JSON integer when that lies in
\* the signed 32-bit range (and, for start_idx and end_idx, is not
\* negative).  An integer outside the 32-bit range that the field's 64-bit
\* read can hold (signed 64-bit for took, shape dims and entity offsets,
\* unsigned 64-bit for start_idx and end_idx) comes out as its low 32 bits
\* read as a signed value.  An integer the 64-bit read cannot hold comes
\* out as 0, like a missing field; so does a negative start_idx or end_idx.
C21_IntegerWidth ==
    \A c \in Calls :
        Decoded(c) /\ calls[c].op \in FiveDecoders =>
            /\ \A rd \in SignedReads(c) :
                  IsInteger(rd[2]) =>
                      rd[1] = (IF InInt64(rd[2]) THEN Wrapped32(rd[2]) ELSE 0)
            /\ \A rd \in UnsignedReads(c) :
                  IsInteger(rd[2]) =>
                      rd[1] = (IF InUInt64(rd[2]) THEN Wrapped32(rd[2]) ELSE 0)

\* one question-answer body with took = 2^63 + 7, start_idx = 2^63 + 7 and
\* end_idx = 2^64 + 7: took is 0, start_idx is 7, end_idx is 0
C21_Witness ==
    \E c \in Calls :
        /\ Decoded(c) /\ calls[c].op = "question_answering"
        /\ Json(c) = WideIntegersJson
        /\ calls[c].result.val.took = 0
        /\ calls[c].result.val.start_idx = 7
        /\ calls[c].result.val.end_idx = 0

====
